---- MODULE Spec2Model ----
(***************************************************************************)
(* State-machine model of the escrow engine of a2a-payments:               *)
(*   EscrowSystem        (escrow.js)                                        *)
(*   EscrowWithWebhooks  (escrow-webhooks.js), the event-emitting subclass  *)
(* One action per public method; every action models the whole call,       *)
(* nested calls (this.release, this.refund) included.                       *)
(***************************************************************************)
EXTENDS Integers, Sequences, FiniteSets, TLC

\* ------------------------------------------------------------------------
\* Bounds of the model
\* ------------------------------------------------------------------------
\* clock advances while one escrow goes through every method
MaxTicks == 1
\* clock advances while the sweep runs
MaxSweepTicks == 2
\* delivery events a single escrow may emit (submitDelivery can be repeated)
MaxDeliveries == 1

\* ------------------------------------------------------------------------
\* Program constants and input sets
\* ------------------------------------------------------------------------
\* timeoutMinutes * 60 * 1000
MsPerMinute == 60000
\* the clock advances in steps of one minute, so that timeout = now happens
TickMs == MsPerMinute
\* Date.now() at construction; any instant far from 0
Epoch == 10 * MsPerMinute

NULL == <<>>
Some(v) == <<v>>

\* the ids create() hands out, in the order it hands them out
EscrowIdSeq == <<"esc_1", "esc_2">>
EscrowIds == {EscrowIdSeq[i] : i \in 1..Len(EscrowIdSeq)}
Amounts == {100}
Payer == "alice"
Payee == "bob"
Principals == {"alice", "bob"}
Arbiters == {"arbiter-agent"}
TxHashes == {"0xabc"}
ProofData == {"proof-1"}
Disputers == {"alice"}
DisputeReasons == {"incomplete"}
\* 0 stands for an omitted timeoutMinutes (null and 0 are both falsy)
TimeoutMinutes == {0, -1, 1}
Decisions == {"release", "refund", "split"}

States == {"pending", "funded", "locked", "released", "refunded", "disputed"}

VARIABLES
  escrows,    \* this.escrows: id -> escrow record
  now,        \* Date.now()
  webhooks,   \* TRUE iff the engine is an EscrowWithWebhooks
  horizon,    \* the last instant the clock reaches in this run
  ids,        \* the ids crypto.randomBytes gives this engine's create(), in order
  emitted,    \* id -> sequence of event kinds handed to webhookManager.emit
  lastOp,     \* the last call: method, id, argument, error thrown, value returned
  store,      \* the JSON file at storePath: id -> escrow record as last written
  peer,       \* a second EscrowSystem on the same storePath: opened?, its this.escrows
  sinkUp,     \* TRUE iff the webhook sink delivers: FALSE, every emit fails
  quotes,     \* the negotiation engine's records: quote id -> quote
  accepting,  \* acceptances in progress or finished: request handler -> call
  payment,    \* the X402Handler.handlePaymentRequired run of the client
  served      \* paid requests at the X402 server: request -> progress

vars == <<escrows, now, webhooks, horizon, ids, emitted, lastOp, store, peer, sinkUp, quotes, accepting,
         payment, served>>

\* ------------------------------------------------------------------------
\* Results of a call on one record
\* ------------------------------------------------------------------------
\* path: the values assigned to escrow.state during the call, in order
\* events: the event kinds emitted by the subclass during the call
Ok(e, path, events) ==
  [ok |-> TRUE, error |-> "none", escrow |-> e, path |-> path, events |-> events]
Throw(e, msg) ==
  [ok |-> FALSE, error |-> msg, escrow |-> e, path |-> <<>>, events |-> <<>>]

Contains(seq, x) == \E i \in 1..Len(seq) : seq[i] = x

\* ------------------------------------------------------------------------
\* EscrowSystem (escrow.js)
\* ------------------------------------------------------------------------
\* JavaScript truthiness of a nullable number
Truthy(x) == x # NULL /\ x[1] # 0

\* create(): the record built from the arguments. cond gives the truthiness
\* of each key of params.conditions after the defaults are applied.
NewEscrow(id, amount, cond, timeoutMinutes, t) ==
  [ id |-> id,
    payer |-> Payer,
    payee |-> Payee,
    amount |-> amount,
    purpose |-> "payment",
    conditions |-> cond,
    state |-> "pending",
    timeline |-> [created |-> Some(t), funded |-> NULL, locked |-> NULL,
                  released |-> NULL, refunded |-> NULL, disputed |-> NULL],
    timeout |-> IF timeoutMinutes # 0
                  THEN Some(t + timeoutMinutes * 60 * 1000) ELSE NULL,
    approvals |-> <<>>,
    deliveryProof |-> NULL,
    disputeReason |-> NULL,
    txHash |-> NULL,
    metadata |-> [releaseReason |-> NULL, refundReason |-> NULL, arbiter |-> NULL] ]

\* conditions: {requiresApproval: c.requiresApproval !== false,
\*              requiresDelivery: c.requiresDelivery || false, ..., ...c}
\* ra is "undef", "true" or "false"; the other keys are given by truthiness
Conditions(ra, rd, rarb, rcc, auto) ==
  [ requiresApproval |-> (ra # "false"),
    requiresDelivery |-> rd,
    requiresArbiter |-> rarb,
    requiresClientConfirmation |-> rcc,
    autoRelease |-> auto ]

\* fund() without the skip-approval branch
fund_NoAutoLock(e, txHash, t) ==
  IF e.state # "pending" THEN Throw(e, "Cannot fund escrow in state")
  ELSE Ok([e EXCEPT !.state = "funded",
                    !.timeline.funded = Some(t),
                    !.txHash = Some(txHash)],
          <<"funded">>, <<>>)

fund(e, txHash, t) ==
  IF e.state # "pending" THEN Throw(e, "Cannot fund escrow in state")
  ELSE LET e1 == [e EXCEPT !.state = "funded",
                           !.timeline.funded = Some(t),
                           !.txHash = Some(txHash)]
       IN  IF ~e1.conditions.requiresApproval
             THEN Ok([e1 EXCEPT !.state = "locked", !.timeline.locked = Some(t)],
                     <<"funded", "locked">>, <<>>)
             ELSE Ok(e1, <<"funded">>, <<>>)

\* approve() that records the approval before it checks the state
approve_PushBeforeGuard(e, approverId, t) ==
  LET e1 == IF ~Contains(e.approvals, approverId)
              THEN [e EXCEPT !.approvals = Append(@, approverId)]
              ELSE e
      allApproved == \A p \in {e1.payer, e1.payee} : Contains(e1.approvals, p)
  IN  IF e.state # "funded" THEN Throw(e1, "Cannot approve escrow in state")
      ELSE IF allApproved
        THEN Ok([e1 EXCEPT !.state = "locked", !.timeline.locked = Some(t)],
                <<"locked">>, <<>>)
        ELSE Ok(e1, <<>>, <<>>)

\* approve() that locks on any two recorded approvals
approve_AnyTwoApprovals(e, approverId, t) ==
  IF e.state # "funded" THEN Throw(e, "Cannot approve escrow in state")
  ELSE LET e1 == IF ~Contains(e.approvals, approverId)
                   THEN [e EXCEPT !.approvals = Append(@, approverId)]
                   ELSE e
       IN  IF Len(e1.approvals) >= 2
             THEN Ok([e1 EXCEPT !.state = "locked", !.timeline.locked = Some(t)],
                     <<"locked">>, <<>>)
             ELSE Ok(e1, <<>>, <<>>)

\* approve() without the approvals.includes test
approve_NoIncludesCheck(e, approverId, t) ==
  IF e.state # "funded" THEN Throw(e, "Cannot approve escrow in state")
  ELSE LET e1 == [e EXCEPT !.approvals = Append(@, approverId)]
           allApproved == \A p \in {e1.payer, e1.payee} : Contains(e1.approvals, p)
       IN  IF allApproved
             THEN Ok([e1 EXCEPT !.state = "locked", !.timeline.locked = Some(t)],
                     <<"locked">>, <<>>)
             ELSE Ok(e1, <<>>, <<>>)

approve(e, approverId, t) ==
  IF e.state # "funded" THEN Throw(e, "Cannot approve escrow in state")
  ELSE LET e1 == IF ~Contains(e.approvals, approverId)
                   THEN [e EXCEPT !.approvals = Append(@, approverId)]
                   ELSE e
           allApproved == \A p \in {e1.payer, e1.payee} : Contains(e1.approvals, p)
       IN  IF allApproved
             THEN Ok([e1 EXCEPT !.state = "locked", !.timeline.locked = Some(t)],
                     <<"locked">>, <<>>)
             ELSE Ok(e1, <<>>, <<>>)

\* release() without the delivery check
release_NoDeliveryCheck(e, reason, t) ==
  IF e.state # "locked" THEN Throw(e, "Cannot release escrow in state")
  ELSE Ok([e EXCEPT !.state = "released",
                    !.timeline.released = Some(t),
                    !.metadata.releaseReason = Some(reason)],
          <<"released">>, <<>>)

\* release() that takes any funded-or-later state for a source
release_NoStateGuard(e, reason, t) ==
  IF e.state = "pending" THEN Throw(e, "Cannot release escrow in state")
  ELSE IF e.conditions.requiresDelivery /\ e.deliveryProof = NULL
    THEN Throw(e, "Delivery proof required before release")
  ELSE Ok([e EXCEPT !.state = "released",
                    !.timeline.released = Some(t),
                    !.metadata.releaseReason = Some(reason)],
          <<"released">>, <<>>)

\* release() that also takes a disputed escrow
release_AllowsDisputed(e, reason, t) ==
  IF e.state \notin {"locked", "disputed"}
    THEN Throw(e, "Cannot release escrow in state")
  ELSE IF e.conditions.requiresDelivery /\ e.deliveryProof = NULL
    THEN Throw(e, "Delivery proof required before release")
  ELSE Ok([e EXCEPT !.state = "released",
                    !.timeline.released = Some(t),
                    !.metadata.releaseReason = Some(reason)],
          <<"released">>, <<>>)

\* release() that also stamps timeline.locked again
release_RestampsLocked(e, reason, t) ==
  IF e.state # "locked" THEN Throw(e, "Cannot release escrow in state")
  ELSE IF e.conditions.requiresDelivery /\ e.deliveryProof = NULL
    THEN Throw(e, "Delivery proof required before release")
  ELSE Ok([e EXCEPT !.state = "released",
                    !.timeline.locked = Some(t),
                    !.timeline.released = Some(t),
                    !.metadata.releaseReason = Some(reason)],
          <<"released">>, <<>>)

release(e, reason, t) ==
  IF e.state # "locked" THEN Throw(e, "Cannot release escrow in state")
  ELSE IF e.conditions.requiresDelivery /\ e.deliveryProof = NULL
    THEN Throw(e, "Delivery proof required before release")
  ELSE Ok([e EXCEPT !.state = "released",
                    !.timeline.released = Some(t),
                    !.metadata.releaseReason = Some(reason)],
          <<"released">>, <<>>)

\* refund() that also takes a pending escrow
refund_AllowsPending(e, reason, t) ==
  IF e.state \notin {"pending", "funded", "locked", "disputed"}
    THEN Throw(e, "Cannot refund escrow in state")
  ELSE Ok([e EXCEPT !.state = "refunded",
                    !.timeline.refunded = Some(t),
                    !.metadata.refundReason = Some(reason)],
          <<"refunded">>, <<>>)

refund(e, reason, t) ==
  IF e.state \notin {"funded", "locked", "disputed"}
    THEN Throw(e, "Cannot refund escrow in state")
  ELSE Ok([e EXCEPT !.state = "refunded",
                    !.timeline.refunded = Some(t),
                    !.metadata.refundReason = Some(reason)],
          <<"refunded">>, <<>>)

dispute_NoStateGuard(e, disputerId, reason, t) ==
  Ok([e EXCEPT !.state = "disputed",
               !.timeline.disputed = Some(t),
               !.disputeReason = Some([disputerId |-> disputerId, reason |-> reason,
                                       timestamp |-> t])],
     <<"disputed">>, <<>>)

dispute(e, disputerId, reason, t) ==
  IF e.state # "locked" THEN Throw(e, "Cannot dispute escrow in state")
  ELSE Ok([e EXCEPT !.state = "disputed",
                    !.timeline.disputed = Some(t),
                    !.disputeReason = Some([disputerId |-> disputerId,
                                            reason |-> reason,
                                            timestamp |-> t])],
          <<"disputed">>, <<>>)

\* ------------------------------------------------------------------------
\* EscrowWithWebhooks (escrow-webhooks.js): super call, then emit
\* ------------------------------------------------------------------------
\* webhookManager.emit(kind, payload): a promise, rejected when the sink
\* cannot take the event
emit(up, kind) == IF up THEN "resolved" ELSE "rejected"

\* a wrapper that lets the rejection reach its caller
OnRejected_Rethrows(r, kind) == Throw(r.escrow, "Failed to emit " \o kind)

\* .catch(error => console.error('Failed to emit ...', error)): logged, the
\* wrapper goes on to return escrow
OnRejected(r, kind) == r

\* the super call has returned; the event is handed to emit
Emit(r, kind) ==
  IF ~r.ok THEN r
  ELSE LET handed == [r EXCEPT !.events = Append(@, kind)]
       IN  IF emit(sinkUp, kind) = "rejected" THEN OnRejected(handed, kind)
           ELSE handed

W_fund(e, txHash, t) == Emit(fund(e, txHash, t), "escrow_funded")

W_approve(e, approverId, t) ==
  LET r == approve(e, approverId, t)
  IN  IF r.ok /\ r.escrow.state = "locked" THEN Emit(r, "escrow_locked") ELSE r

W_release(e, reason, t) == Emit(release(e, reason, t), "escrow_released")

W_refund(e, reason, t) == Emit(refund(e, reason, t), "escrow_refunded")

\* super.dispute(escrowId, reason): reason lands in disputerId, and the
\* third argument is undefined
W_dispute(e, disputerId, reason, t) ==
  Emit(dispute(e, reason, "undefined", t), "escrow_disputed")

\* this.release / this.refund as the engine's class resolves them
this_release(wh, e, reason, t) ==
  IF wh THEN W_release(e, reason, t) ELSE release(e, reason, t)

this_refund(wh, e, reason, t) ==
  IF wh THEN W_refund(e, reason, t) ELSE refund(e, reason, t)

\* ------------------------------------------------------------------------
\* EscrowSystem methods that call this.release / this.refund
\* ------------------------------------------------------------------------
\* submitDelivery() whose auto-release test leaves out
\* requiresClientConfirmation
submitDelivery_IgnoresClientConfirmation(wh, e, data, t) ==
  IF e.state # "locked" THEN Throw(e, "Cannot submit delivery for escrow in state")
  ELSE LET e1 == [e EXCEPT !.deliveryProof =
                     Some([submittedBy |-> e.payee, timestamp |-> t,
                           data |-> data, signature |-> NULL])]
       IN  IF e1.conditions.requiresDelivery /\ ~e1.conditions.requiresArbiter
             THEN this_release(wh, e1, "automatic - delivery confirmed", t)
             ELSE Ok(e1, <<>>, <<>>)

submitDelivery(wh, e, data, t) ==
  IF e.state # "locked" THEN Throw(e, "Cannot submit delivery for escrow in state")
  ELSE LET e1 == [e EXCEPT !.deliveryProof =
                     Some([submittedBy |-> e.payee, timestamp |-> t,
                           data |-> data, signature |-> NULL])]
       IN  IF e1.conditions.requiresDelivery /\ ~e1.conditions.requiresArbiter
              /\ ~e1.conditions.requiresClientConfirmation
             THEN this_release(wh, e1, "automatic - delivery confirmed", t)
             ELSE Ok(e1, <<>>, <<>>)

ArbiterReason(arbiter) == "arbiter decision by " \o arbiter

resolveDispute(wh, e, decision, arbiter, t) ==
  IF e.state # "disputed" THEN Throw(e, "Escrow not in disputed state")
  ELSE LET r == IF decision = "release"
                  THEN this_release(wh, e, ArbiterReason(arbiter), t)
                ELSE IF decision = "refund"
                  THEN this_refund(wh, e, ArbiterReason(arbiter), t)
                ELSE Throw(e, "Invalid dispute resolution")
       IN  IF r.ok
             THEN [r EXCEPT !.escrow.metadata.arbiter = Some(arbiter)]
             ELSE r

W_submitDelivery(e, data, t) ==
  LET r == submitDelivery(TRUE, e, data, t)
  IN  IF r.ok /\ r.escrow.state = "locked"
        THEN Emit(r, "delivery_proof_submitted") ELSE r

W_resolveDispute(e, decision, arbiter, t) ==
  Emit(resolveDispute(TRUE, e, decision, arbiter, t), "dispute_resolved")

\* a sweep that refunds whatever has timed out, whatever its state
Due_NoStateCheck(e, t) ==
  Truthy(e.timeout) /\ e.timeout[1] < t

\* a sweep that leaves funded escrows alone
Due_LockedOnly(e, t) ==
  Truthy(e.timeout) /\ e.timeout[1] < t /\ e.state \in {"locked"}

\* processTimeouts(): the test that selects an escrow for the refund
Due(e, t) ==
  Truthy(e.timeout) /\ e.timeout[1] < t /\ e.state \in {"funded", "locked"}

\* processTimeouts(): the loop over Object.entries(this.escrows), from entry i
\* acc: [escrows, expired, path, events, error]
RECURSIVE sweepFrom(_, _, _, _)
sweepFrom(wh, i, acc, t) ==
  IF i > Len(EscrowIdSeq) \/ acc.error # "none" THEN acc
  ELSE LET id == EscrowIdSeq[i]
       IN  IF id \notin DOMAIN acc.escrows THEN sweepFrom(wh, i + 1, acc, t)
           ELSE LET e == acc.escrows[id]
                IN  IF Due(e, t)
                      THEN LET r == this_refund(wh, e, "automatic timeout", t)
                           IN  sweepFrom(wh, i + 1,
                                 [ escrows |-> [acc.escrows EXCEPT ![id] = r.escrow],
                                   expired |-> IF r.ok THEN Append(acc.expired, id)
                                                       ELSE acc.expired,
                                   path |-> [acc.path EXCEPT ![id] = r.path],
                                   events |-> [acc.events EXCEPT ![id] = r.events],
                                   error |-> r.error ], t)
                      ELSE sweepFrom(wh, i + 1, acc, t)

NoPath == [id \in EscrowIds |-> <<>>]

processTimeouts(wh, es, t) ==
  sweepFrom(wh, 1, [escrows |-> es, expired |-> <<>>, path |-> NoPath,
                    events |-> NoPath, error |-> "none"], t)

\* EscrowWithWebhooks.processTimeouts: one escrow_timeout per returned id
W_processTimeouts(es, t) ==
  LET r == processTimeouts(TRUE, es, t)
  IN  IF r.error # "none" THEN r
      ELSE [r EXCEPT !.events =
              [id \in EscrowIds |->
                 IF Contains(r.expired, id) /\ id \in DOMAIN r.escrows
                   THEN Append(r.events[id], "escrow_timeout")
                   ELSE r.events[id]]]

\* releaseX402(): both branches end in this.release
releaseX402(wh, e, serviceDescription, t) ==
  IF e.conditions.autoRelease
    THEN this_release(wh, e, "X402 auto-release: " \o serviceDescription, t)
    ELSE this_release(wh, e, serviceDescription, t)

\* ------------------------------------------------------------------------
\* The store file
\* ------------------------------------------------------------------------
\* loadState(): the whole file parsed, {} when the file does not exist
loadState(file) == file

\* saveState(): the file becomes the whole in-memory map of the writer
saveState(es) == es

\* a second EscrowSystem on the same storePath, before its constructor ran
Unopened == [open |-> FALSE, escrows |-> << >>]

\* ------------------------------------------------------------------------
\* The state machine
\* ------------------------------------------------------------------------
\* a method without the "if (!escrow)" test: reading escrow.state of undefined
NotFound_TypeError ==
  [ok |-> FALSE, error |-> "Cannot read properties of undefined",
   path |-> <<>>, events |-> <<>>]

NotFound == [ok |-> FALSE, error |-> "Escrow not found", path |-> <<>>, events |-> <<>>]

CountKind(seq, kind) == Cardinality({i \in 1..Len(seq) : seq[i] = kind})

\* No handlePaymentRequired has been started.
NoPayment == [pc |-> "idle", escrowId |-> NULL, autoRelease |-> FALSE, error |-> "none"]

FreshSink(idSeq, ticks, sinks) ==
  /\ escrows = << >>
  /\ now = Epoch
  /\ horizon = Epoch + ticks * TickMs
  /\ webhooks \in BOOLEAN
  /\ ids = idSeq
  /\ store = << >>
  /\ peer = Unopened
  /\ sinkUp \in sinks
  /\ quotes = << >>
  /\ accepting = << >>
  /\ payment = NoPayment
  /\ served = << >>
  /\ emitted = [id \in EscrowIds |-> <<>>]
  /\ lastOp = [op |-> "new", id |-> "", arg |-> "", error |-> "none", result |-> <<>>,
               path |-> NoPath, repeat |-> FALSE]

\* a run with a working sink
Fresh(idSeq, ticks) == FreshSink(idSeq, ticks, {TRUE})

\* one escrow: every method, every input
Init == Fresh(<<EscrowIdSeq[1]>>, MaxTicks)

Known == {ids[i] : i \in 1..Len(ids)}

\* the effect of a call of a method on one id, given its result r
Called(op, id, arg, r) ==
  /\ escrows' = IF id \in DOMAIN escrows
                  THEN [escrows EXCEPT ![id] = r.escrow] ELSE escrows
  /\ emitted' = IF webhooks
                  THEN [emitted EXCEPT ![id] = @ \o r.events] ELSE emitted
  /\ lastOp' = [op |-> op, id |-> id, arg |-> arg, error |-> r.error, result |-> <<>>,
                path |-> [NoPath EXCEPT ![id] = r.path], repeat |-> FALSE]
  /\ store' = IF r.ok THEN saveState(escrows') ELSE store
  /\ UNCHANGED <<now, webhooks, horizon, ids, peer, sinkUp, quotes, accepting, payment, served>>

\* the clock moves on between calls
Tick ==
  /\ now < horizon
  /\ now' = now + TickMs
  /\ lastOp' = [op |-> "tick", id |-> "", arg |-> "", error |-> "none", result |-> <<>>,
                path |-> NoPath, repeat |-> FALSE]
  /\ UNCHANGED <<escrows, webhooks, horizon, ids, emitted, store, peer, sinkUp, quotes, accepting, payment, served>>

FreshId == ids[Cardinality(DOMAIN escrows) + 1]

Created(op, e) ==
  /\ escrows' = [id \in DOMAIN escrows \cup {e.id} |->
                   IF id = e.id THEN e ELSE escrows[id]]
  /\ emitted' = IF webhooks
                  THEN [emitted EXCEPT ![e.id] = Append(@, "escrow_created")]
                  ELSE emitted
  /\ lastOp' = [op |-> op, id |-> e.id, arg |-> "", error |-> "none", result |-> <<>>,
                path |-> NoPath, repeat |-> FALSE]
  /\ store' = saveState(escrows')
  /\ UNCHANGED <<now, webhooks, horizon, ids, peer, sinkUp, quotes, accepting, payment, served>>

Create ==
  /\ Cardinality(DOMAIN escrows) < Len(ids)
  /\ \E amount \in Amounts, ra \in {"undef", "false"}, rd \in BOOLEAN,
        rarb \in BOOLEAN, tm \in TimeoutMinutes :
       Created("create",
               NewEscrow(FreshId, amount, Conditions(ra, rd, rarb, FALSE, FALSE),
                         tm, now))

\* createX402Escrow(paymentInfo, options): autoRelease = options.autoRelease
\* !== false, timeout = options.timeoutMinutes || 5
CreateX402Escrow ==
  /\ Cardinality(DOMAIN escrows) < Len(ids)
  /\ \E amount \in Amounts, auto \in BOOLEAN, tm \in TimeoutMinutes :
       Created("createX402Escrow",
               [NewEscrow(FreshId, amount,
                          Conditions("false", TRUE, FALSE, FALSE, auto),
                          IF tm # 0 THEN tm ELSE 5, now)
                  EXCEPT !.purpose = "X402: service"])

Fund ==
  \E id \in Known, txHash \in TxHashes :
    Called("fund", id, txHash,
           IF id \notin DOMAIN escrows THEN NotFound
           ELSE IF webhooks THEN W_fund(escrows[id], txHash, now)
           ELSE fund(escrows[id], txHash, now))

Approve ==
  \E id \in Known, approverId \in Principals :
    Called("approve", id, approverId,
           IF id \notin DOMAIN escrows THEN NotFound
           ELSE IF webhooks THEN W_approve(escrows[id], approverId, now)
           ELSE approve(escrows[id], approverId, now))

SubmitDelivery ==
  \E id \in Known, data \in ProofData :
    /\ webhooks =>
         CountKind(emitted[id], "delivery_proof_submitted") < MaxDeliveries
    /\ Called("submitDelivery", id, data,
           IF id \notin DOMAIN escrows THEN NotFound
           ELSE IF webhooks THEN W_submitDelivery(escrows[id], data, now)
           ELSE submitDelivery(FALSE, escrows[id], data, now))

Release ==
  \E id \in Known :
    Called("release", id, "manual release",
           IF id \notin DOMAIN escrows THEN NotFound
           ELSE this_release(webhooks, escrows[id], "manual release", now))

ReleaseX402 ==
  \E id \in Known :
    Called("releaseX402", id, "content",
           IF id \notin DOMAIN escrows THEN NotFound
           ELSE releaseX402(webhooks, escrows[id], "content", now))

Refund ==
  \E id \in Known :
    Called("refund", id, "manual refund",
           IF id \notin DOMAIN escrows THEN NotFound
           ELSE this_refund(webhooks, escrows[id], "manual refund", now))

Dispute ==
  \E id \in Known, disputerId \in Disputers, reason \in DisputeReasons :
    Called("dispute", id, disputerId,
           IF id \notin DOMAIN escrows THEN NotFound
           ELSE IF webhooks THEN W_dispute(escrows[id], disputerId, reason, now)
           ELSE dispute(escrows[id], disputerId, reason, now))

ResolveDispute ==
  \E id \in Known, decision \in Decisions, arbiter \in Arbiters :
    Called("resolveDispute", id, decision,
           IF id \notin DOMAIN escrows THEN NotFound
           ELSE IF webhooks
             THEN W_resolveDispute(escrows[id], decision, arbiter, now)
           ELSE resolveDispute(FALSE, escrows[id], decision, arbiter, now))

ProcessTimeouts ==
  LET r == IF webhooks THEN W_processTimeouts(escrows, now)
           ELSE processTimeouts(FALSE, escrows, now)
  IN  /\ escrows' = r.escrows
      /\ emitted' = IF webhooks
                      THEN [id \in EscrowIds |-> emitted[id] \o r.events[id]]
                      ELSE emitted
      /\ lastOp' = [op |-> "processTimeouts", id |-> "", arg |-> "", error |-> r.error,
                    result |-> r.expired, path |-> r.path,
                    repeat |-> (lastOp.op = "processTimeouts")]
      /\ store' = IF r.expired # <<>> THEN saveState(r.escrows) ELSE store
      /\ UNCHANGED <<now, webhooks, horizon, ids, peer, sinkUp, quotes, accepting, payment, served>>

Next ==
  \/ Tick
  \/ Create
  \/ CreateX402Escrow
  \/ Fund
  \/ Approve
  \/ SubmitDelivery
  \/ Release
  \/ ReleaseX402
  \/ Refund
  \/ Dispute
  \/ ResolveDispute
  \/ ProcessTimeouts

Spec == Init /\ [][Next]_vars

\* ------------------------------------------------------------------------
\* Properties of the escrow state machine
\* ------------------------------------------------------------------------
Edges ==
  { <<"pending", "funded">>, <<"funded", "locked">>, <<"locked", "released">>,
    <<"locked", "refunded">>, <<"locked", "disputed">>, <<"disputed", "released">>,
    <<"disputed", "refunded">>, <<"funded", "refunded">> }

Terminal == {"released", "refunded"}

\* the states a call passes escrow id through: the state before it, then
\* every value the call assigns to escrow.state
Passed(id) == <<escrows[id].state>> \o lastOp'.path[id]

\* C1: every assignment to an escrow's state, in every call, follows an edge
\* of the state graph, and the state after the call is the last one assigned.
C1_TransitionsFollowGraph ==
  [][\A id \in DOMAIN escrows :
       /\ escrows'[id].state = Passed(id)[Len(Passed(id))]
       /\ \A i \in 1..(Len(Passed(id)) - 1) :
            <<Passed(id)[i], Passed(id)[i + 1]>> \in Edges]_vars

\* an escrow that went locked -> disputed -> refunded
C1_Witness ==
  \E id \in DOMAIN escrows :
    /\ escrows[id].state = "refunded"
    /\ escrows[id].timeline.disputed # NULL
    /\ lastOp.path[id] = <<"refunded">>

\* C2: once released or refunded, no call changes any field of the record,
\* and every mutating call that names the escrow throws.
C2_TerminalIsFinal ==
  [][\A id \in DOMAIN escrows :
       escrows[id].state \in Terminal =>
         /\ escrows'[id] = escrows[id]
         /\ lastOp'.id = id => lastOp'.error # "none"]_vars

\* a refund was attempted on a released escrow and thrown back
C2_Witness ==
  /\ lastOp.op = "refund"
  /\ lastOp.error = "Cannot refund escrow in state"
  /\ lastOp.id \in DOMAIN escrows
  /\ escrows[lastOp.id].state = "released"

\* C3: a released escrow whose conditions require delivery has a delivery
\* proof on record.
C3_ReleasedHasProof ==
  \A id \in DOMAIN escrows :
    (escrows[id].state = "released" /\ escrows[id].conditions.requiresDelivery)
      => escrows[id].deliveryProof # NULL

\* a manual release after delivery, on an escrow that requires delivery
C3_Witness ==
  \E id \in DOMAIN escrows :
    /\ escrows[id].state = "released"
    /\ escrows[id].conditions.requiresDelivery
    /\ escrows[id].deliveryProof # NULL
    /\ escrows[id].metadata.releaseReason = Some("manual release")

\* the states each method may be called from
ValidSource(op) ==
  CASE op = "fund" -> {"pending"}
    [] op = "approve" -> {"funded"}
    [] op \in {"submitDelivery", "release", "dispute"} -> {"locked"}
    [] op = "refund" -> {"funded", "locked", "disputed"}
    [] op = "resolveDispute" -> {"disputed"}

\* the error each method throws for a call from another state
InvalidState(op) ==
  CASE op = "fund" -> "Cannot fund escrow in state"
    [] op = "approve" -> "Cannot approve escrow in state"
    [] op = "submitDelivery" -> "Cannot submit delivery for escrow in state"
    [] op = "release" -> "Cannot release escrow in state"
    [] op = "dispute" -> "Cannot dispute escrow in state"
    [] op = "refund" -> "Cannot refund escrow in state"
    [] op = "resolveDispute" -> "Escrow not in disputed state"

Guarded ==
  {"fund", "approve", "submitDelivery", "release", "dispute", "refund",
   "resolveDispute"}

\* C4: a call made from a state that is no valid source for it throws the
\* method's invalid-state error and leaves the record as it was.
C4_TransitionLegality ==
  [][\A id \in DOMAIN escrows :
       (/\ lastOp'.id = id
        /\ lastOp'.op \in Guarded
        /\ escrows[id].state \notin ValidSource(lastOp'.op))
         => /\ lastOp'.error = InvalidState(lastOp'.op)
            /\ escrows'[id] = escrows[id]]_vars

\* approve was called on an escrow that is already locked, and thrown back
C4_Witness ==
  /\ lastOp.op = "approve"
  /\ lastOp.error = "Cannot approve escrow in state"
  /\ lastOp.id \in DOMAIN escrows
  /\ escrows[lastOp.id].state = "locked"
  /\ Len(escrows[lastOp.id].approvals) = 2

\* C5, as claimed: resolveDispute on a disputed escrow ends released for
\* 'release' and refunded for 'refund', with the arbiter stamped; any other
\* decision throws and leaves it disputed.
C5_ResolveMatchesDecision ==
  [][\A id \in DOMAIN escrows :
       (/\ escrows[id].state = "disputed"
        /\ lastOp'.op = "resolveDispute"
        /\ lastOp'.id = id)
         => /\ lastOp'.arg = "release" =>
                 /\ escrows'[id].state = "released"
                 /\ escrows'[id].metadata.arbiter # NULL
            /\ lastOp'.arg = "refund" =>
                 /\ escrows'[id].state = "refunded"
                 /\ escrows'[id].metadata.arbiter # NULL
            /\ lastOp'.arg \notin {"release", "refund"} =>
                 /\ lastOp'.error # "none"
                 /\ escrows'[id].state = "disputed"]_vars

\* C6, as claimed: while disputed, direct release and direct refund both
\* throw, and only resolveDispute moves the escrow out of disputed.
C6_DisputeFreezesSettlement ==
  [][\A id \in DOMAIN escrows :
       escrows[id].state = "disputed" =>
         /\ (lastOp'.id = id /\ lastOp'.op \in {"release", "refund"}) =>
              /\ lastOp'.error # "none"
              /\ escrows'[id].state = "disputed"
         /\ escrows'[id].state # "disputed" =>
              (lastOp'.op = "resolveDispute" /\ lastOp'.id = id)]_vars

\* C6, amended: while disputed, a direct release throws and leaves the escrow
\* disputed, a direct refund succeeds and leaves it refunded, and only a
\* refund or resolveDispute call on the escrow moves it out of disputed.
C6_DisputeFreezesRelease ==
  [][\A id \in DOMAIN escrows :
       escrows[id].state = "disputed" =>
         /\ (lastOp'.id = id /\ lastOp'.op \in {"release", "releaseX402"}) =>
              /\ lastOp'.error = "Cannot release escrow in state"
              /\ escrows'[id] = escrows[id]
         /\ (lastOp'.id = id /\ lastOp'.op = "refund") =>
              /\ lastOp'.error = "none"
              /\ escrows'[id].state = "refunded"
         /\ escrows'[id].state # "disputed" =>
              (lastOp'.op \in {"refund", "resolveDispute"} /\ lastOp'.id = id)]_vars

\* a disputed escrow refunded by a direct refund call, no arbiter involved
C6_Witness ==
  /\ lastOp.op = "refund"
  /\ lastOp.error = "none"
  /\ lastOp.id \in DOMAIN escrows
  /\ escrows[lastOp.id].state = "refunded"
  /\ escrows[lastOp.id].timeline.disputed # NULL
  /\ escrows[lastOp.id].metadata.arbiter = NULL

TimedOut(e, t) == e.timeout # NULL /\ e.timeout[1] < t

\* C7, as claimed: once the timeout instant has passed, approve,
\* submitDelivery, release, dispute and resolveDispute never move the escrow
\* to locked, released or disputed.
C7_OnlyRefundAfterTimeout ==
  [][\A id \in DOMAIN escrows :
       (/\ TimedOut(escrows[id], now)
        /\ lastOp'.id = id
        /\ lastOp'.op \in {"approve", "submitDelivery", "release", "dispute",
                           "resolveDispute"})
         => \/ escrows'[id].state = escrows[id].state
            \/ escrows'[id].state = "refunded"]_vars

\* ------------------------------------------------------------------------
\* The timeout sweep over several escrows
\* ------------------------------------------------------------------------
\* two escrows, created with or without approval and with any timeout
InitSweep == Fresh(EscrowIdSeq, MaxSweepTicks)

CreateTimed ==
  /\ Cardinality(DOMAIN escrows) < Len(ids)
  /\ \E amount \in Amounts, ra \in {"undef", "false"}, tm \in TimeoutMinutes :
       Created("create",
               NewEscrow(FreshId, amount,
                         Conditions(ra, FALSE, FALSE, FALSE, FALSE), tm, now))

NextSweep ==
  \/ Tick
  \/ CreateTimed
  \/ Fund
  \/ Release
  \/ Dispute
  \/ ProcessTimeouts

SpecSweep == InitSweep /\ [][NextSweep]_vars

\* the events a step adds for escrow id
NewEvents(id) == SubSeq(emitted'[id], Len(emitted[id]) + 1, Len(emitted'[id]))

\* C8, as claimed: a sweep at instant now refunds and returns every escrow
\* that is funded or locked with a timeout <= now, and leaves every other
\* escrow unchanged and out of the returned list.
C8_SweepRefundsDue ==
  [][lastOp'.op = "processTimeouts" =>
       \A id \in DOMAIN escrows :
         IF /\ escrows[id].state \in {"funded", "locked"}
            /\ escrows[id].timeout # NULL
            /\ escrows[id].timeout[1] <= now
           THEN /\ escrows'[id].state = "refunded"
                /\ Contains(lastOp'.result, id)
           ELSE /\ escrows'[id] = escrows[id]
                /\ ~Contains(lastOp'.result, id)]_vars

NextLive ==
  \/ Tick
  \/ CreateTimed
  \/ Fund
  \/ Approve
  \/ Release
  \/ Refund
  \/ Dispute
  \/ ProcessTimeouts

InitLive == Fresh(<<EscrowIdSeq[1]>>, MaxSweepTicks)

SpecLive ==
  InitLive /\ [][NextLive]_vars /\ WF_vars(ProcessTimeouts) /\ WF_vars(Tick)

\* the ids SpecLive creates
LiveIds == {EscrowIdSeq[1]}

\* escrow id has been funded, is not settled, and its timeout passes
\* within the horizon
AwaitsTimeout(id, states) ==
  /\ id \in DOMAIN escrows
  /\ escrows[id].state \in states
  /\ escrows[id].timeout # NULL
  /\ escrows[id].timeout[1] < horizon

Settled(id, states) == id \in DOMAIN escrows /\ escrows[id].state \in states

\* C10, as claimed: an escrow with a timeout, once funded, eventually is
\* released or refunded, even when a dispute is opened and no arbiter acts.
C10_EventuallySettled ==
  \A id \in LiveIds :
    AwaitsTimeout(id, {"funded", "locked", "disputed"}) ~> Settled(id, Terminal)

\* C10, amended: an escrow with a timeout, once funded, eventually is
\* released, refunded or disputed; the sweep does not touch a disputed one.
C10_EventuallySettledOrDisputed ==
  \A id \in LiveIds :
    AwaitsTimeout(id, {"funded", "locked"})
      ~> Settled(id, Terminal \cup {"disputed"})

\* an escrow that was only funded, never approved, and refunded by the sweep
\* after the clock passed its timeout
C10_Witness ==
  \E id \in DOMAIN escrows :
    /\ escrows[id].state = "refunded"
    /\ escrows[id].metadata.refundReason = Some("automatic timeout")
    /\ escrows[id].timeline.locked = NULL
    /\ escrows[id].timeout[1] > escrows[id].timeline.created[1]

\* ------------------------------------------------------------------------
\* Approvals: one escrow, the two parties and a third id
\* ------------------------------------------------------------------------
\* an approverId that is neither the payer nor the payee
Strangers == {"mallory"}

ApproveStranger ==
  \E id \in Known, approverId \in Strangers :
    Called("approve", id, approverId,
           IF id \notin DOMAIN escrows THEN NotFound
           ELSE IF webhooks THEN W_approve(escrows[id], approverId, now)
           ELSE approve(escrows[id], approverId, now))

InitApprove == Fresh(<<EscrowIdSeq[1]>>, MaxTicks)

NextApprove ==
  \/ Tick
  \/ CreateTimed
  \/ Fund
  \/ Approve
  \/ ApproveStranger
  \/ Release
  \/ Refund
  \/ Dispute

SpecApprove == InitApprove /\ [][NextApprove]_vars

Parties(e) == {e.payer, e.payee}

BothApproved(e) == \A p \in Parties(e) : Contains(e.approvals, p)

ApproveStep(id) == lastOp'.op = "approve" /\ lastOp'.id = id

\* C13: approvals hold only the payer and the payee of the escrow; approve
\* with any other id never adds that id.
C13_ApprovalsOnlyParties ==
  \A id \in DOMAIN escrows :
    \A i \in 1..Len(escrows[id].approvals) :
      escrows[id].approvals[i] \in Parties(escrows[id])

\* C14: an approve call on a funded escrow locks it exactly when both parties
\* are then in approvals, whatever other ids have approved, and an escrow
\* that requires approval and has ever been locked has both parties in
\* approvals.
C14_LockedIffBothApproved ==
  [][\A id \in DOMAIN escrows :
       LET e  == escrows[id]
           e2 == escrows'[id]
       IN  /\ (ApproveStep(id) /\ e.state = "funded") =>
                /\ e2.state \in {"funded", "locked"}
                /\ (e2.state = "locked") <=> BothApproved(e2)
           /\ ( /\ e2.conditions.requiresApproval
                /\ \/ e2.state \in {"locked", "released", "disputed"}
                   \/ e2.state = "refunded" /\ e2.timeline.locked # NULL )
                => BothApproved(e2)]_vars

\* an escrow locked by the second party's approval although a third id had
\* approved before
C14_Witness ==
  \E id \in DOMAIN escrows :
    /\ lastOp.op = "approve" /\ lastOp.id = id /\ lastOp.error = "none"
    /\ escrows[id].state = "locked"
    /\ Len(escrows[id].approvals) = 3
    /\ BothApproved(escrows[id])

NoDuplicates(seq) == \A i, j \in 1..Len(seq) : seq[i] = seq[j] => i = j

\* C15: approve with an id already in approvals adds no second entry for it,
\* and timeline.locked, once written, is never written again.
C15_ApproveIdempotent ==
  [][\A id \in DOMAIN escrows :
       LET e  == escrows[id]
           e2 == escrows'[id]
       IN  /\ (ApproveStep(id) /\ Contains(e.approvals, lastOp'.arg)) =>
                e2.approvals = e.approvals
           /\ NoDuplicates(e2.approvals)
           /\ e.timeline.locked # NULL => e2.timeline.locked = e.timeline.locked]_vars

\* a repeated approval that returned normally: the id approved last is the
\* one recorded first
C15_Witness ==
  \E id \in DOMAIN escrows :
    /\ lastOp.op = "approve" /\ lastOp.id = id /\ lastOp.error = "none"
    /\ escrows[id].state = "funded"
    /\ Len(escrows[id].approvals) = 2
    /\ escrows[id].approvals[1] = lastOp.arg

\* ------------------------------------------------------------------------
\* Funding
\* ------------------------------------------------------------------------
FundStep(id) == lastOp'.op = "fund" /\ lastOp'.id = id

\* C16: fund on a pending escrow records the transaction reference; the
\* escrow ends funded when requiresApproval is true and locked, with the
\* funded and the locked instant both written by that call, when it is false;
\* no call and no reader of the store ever finds a no-approval escrow funded.
C16_FundLocksWithoutApproval ==
  [][/\ \A id \in DOMAIN escrows :
          LET e  == escrows[id]
              e2 == escrows'[id]
          IN  /\ (FundStep(id) /\ e.state = "pending") =>
                   /\ lastOp'.error = "none"
                   /\ e2.txHash = Some(lastOp'.arg)
                   /\ e2.timeline.funded = Some(now)
                   /\ IF e.conditions.requiresApproval
                        THEN e2.state = "funded" /\ e2.timeline.locked = NULL
                        ELSE e2.state = "locked" /\ e2.timeline.locked = Some(now)
              /\ ~e2.conditions.requiresApproval => e2.state # "funded"
     /\ \A id \in DOMAIN store' :
          ~store'[id].conditions.requiresApproval => store'[id].state # "funded"]_vars

\* a no-approval escrow just funded: locked in memory and in the store
C16_Witness ==
  \E id \in DOMAIN escrows :
    /\ lastOp.op = "fund" /\ lastOp.id = id /\ lastOp.error = "none"
    /\ ~escrows[id].conditions.requiresApproval
    /\ escrows[id].state = "locked"
    /\ escrows[id].timeline.locked = escrows[id].timeline.funded
    /\ id \in DOMAIN store /\ store[id].state = "locked"

\* ------------------------------------------------------------------------
\* Delivery: one no-approval escrow, every combination of the delivery,
\* arbiter and client-confirmation conditions
\* ------------------------------------------------------------------------
CreateDelivery ==
  /\ Cardinality(DOMAIN escrows) < Len(ids)
  /\ \E amount \in Amounts, rd \in BOOLEAN, rarb \in BOOLEAN, rcc \in BOOLEAN :
       Created("create",
               NewEscrow(FreshId, amount, Conditions("false", rd, rarb, rcc, FALSE),
                         0, now))

InitDelivery == Fresh(<<EscrowIdSeq[1]>>, MaxTicks)

NextDelivery ==
  \/ Tick
  \/ CreateDelivery
  \/ Fund
  \/ SubmitDelivery
  \/ Release
  \/ Refund
  \/ Dispute

SpecDelivery == InitDelivery /\ [][NextDelivery]_vars

ReleaseStep(id) == lastOp'.op = "release" /\ lastOp'.id = id

SubmitStep(id) == lastOp'.op = "submitDelivery" /\ lastOp'.id = id

\* the call before this one was a submitDelivery on id that returned normally
AfterSubmit(id) ==
  lastOp.op = "submitDelivery" /\ lastOp.id = id /\ lastOp.error = "none"

ProofRequired == "Delivery proof required before release"

NeedsProof(e) ==
  e.state = "locked" /\ e.conditions.requiresDelivery /\ e.deliveryProof = NULL

\* delivery is the only release condition
DeliveryOnly(e) ==
  /\ e.conditions.requiresDelivery
  /\ ~e.conditions.requiresArbiter
  /\ ~e.conditions.requiresClientConfirmation

\* C17: release on a locked escrow with requiresDelivery and no proof fails
\* with the delivery-proof error and leaves the escrow locked; the same
\* release call made right after submitDelivery on that escrow succeeds.
C17_ReleaseSucceedsAfterDelivery ==
  [][\A id \in DOMAIN escrows :
       LET e  == escrows[id]
           e2 == escrows'[id]
       IN  /\ (ReleaseStep(id) /\ NeedsProof(e)) =>
                lastOp'.error = ProofRequired /\ e2 = e
           /\ (ReleaseStep(id) /\ AfterSubmit(id) /\ e.conditions.requiresDelivery) =>
                lastOp'.error = "none" /\ e2.state = "released"]_vars

\* C17, amended: the release call made right after submitDelivery succeeds
\* when the escrow is still locked, which is when an arbiter or a client
\* confirmation is required; otherwise submitDelivery has released the escrow
\* already and the release call fails on the state guard.
C17_ReleaseAfterDeliveryIfStillLocked ==
  [][\A id \in DOMAIN escrows :
       LET e  == escrows[id]
           e2 == escrows'[id]
       IN  /\ (ReleaseStep(id) /\ NeedsProof(e)) =>
                lastOp'.error = ProofRequired /\ e2 = e
           /\ (ReleaseStep(id) /\ AfterSubmit(id) /\ e.conditions.requiresDelivery) =>
                IF DeliveryOnly(e)
                  THEN /\ e.state = "released"
                       /\ lastOp'.error = "Cannot release escrow in state"
                       /\ e2 = e
                  ELSE /\ e.state = "locked"
                       /\ lastOp'.error = "none"
                       /\ e2.state = "released"]_vars

\* a manual release that went through on an escrow whose proof left it locked
C17_Witness ==
  \E id \in DOMAIN escrows :
    /\ lastOp.op = "release" /\ lastOp.id = id /\ lastOp.error = "none"
    /\ escrows[id].conditions.requiresDelivery
    /\ ~DeliveryOnly(escrows[id])
    /\ escrows[id].state = "released"
    /\ escrows[id].metadata.releaseReason = Some("manual release")
    /\ escrows[id].deliveryProof # NULL

\* C18: submitDelivery on a locked escrow records the proof; the escrow ends
\* released when delivery is the only release condition and stays locked in
\* every other case.
C18_AutoReleaseConsistent ==
  [][\A id \in DOMAIN escrows :
       LET e  == escrows[id]
           e2 == escrows'[id]
       IN  (SubmitStep(id) /\ e.state = "locked") =>
             /\ lastOp'.error = "none"
             /\ e2.deliveryProof =
                  Some([submittedBy |-> e.payee, timestamp |-> now,
                        data |-> lastOp'.arg, signature |-> NULL])
             /\ IF DeliveryOnly(e)
                  THEN /\ e2.state = "released"
                       /\ e2.metadata.releaseReason =
                            Some("automatic - delivery confirmed")
                  ELSE e2.state = "locked"]_vars

\* a proof recorded on an escrow that stays locked only because the client
\* must confirm
C18_Witness ==
  \E id \in DOMAIN escrows :
    /\ lastOp.op = "submitDelivery" /\ lastOp.id = id /\ lastOp.error = "none"
    /\ escrows[id].conditions.requiresDelivery
    /\ ~escrows[id].conditions.requiresArbiter
    /\ escrows[id].conditions.requiresClientConfirmation
    /\ escrows[id].state = "locked"
    /\ escrows[id].deliveryProof # NULL

\* C19: a delivery proof, once set, is never replaced or altered, and
\* submitDelivery on an escrow that has one fails.
C19_ProofWriteOnce ==
  [][\A id \in DOMAIN escrows :
       LET e  == escrows[id]
           e2 == escrows'[id]
       IN  e.deliveryProof # NULL =>
             /\ e2.deliveryProof = e.deliveryProof
             /\ SubmitStep(id) => lastOp'.error # "none"]_vars

\* ------------------------------------------------------------------------
\* Two EscrowSystem instances on one store file
\* ------------------------------------------------------------------------
\* the second instance's constructor: this.escrows = this.loadState()
PeerOpen ==
  /\ ~peer.open
  /\ peer' = [open |-> TRUE, escrows |-> loadState(store)]
  /\ lastOp' = [op |-> "peer.new", id |-> "", arg |-> "", error |-> "none",
                result |-> <<>>, path |-> NoPath, repeat |-> FALSE]
  /\ UNCHANGED <<escrows, now, webhooks, horizon, ids, emitted, store, sinkUp, quotes, accepting, payment, served>>

\* the effect of a call of a method of the second instance on one id
PeerCalled(op, id, arg, r) ==
  /\ peer' = IF id \in DOMAIN peer.escrows
               THEN [peer EXCEPT !.escrows[id] = r.escrow] ELSE peer
  /\ store' = IF r.ok THEN saveState(peer'.escrows) ELSE store
  /\ lastOp' = [op |-> op, id |-> id, arg |-> arg, error |-> r.error, result |-> <<>>,
                path |-> [NoPath EXCEPT ![id] = r.path], repeat |-> FALSE]
  /\ UNCHANGED <<escrows, now, webhooks, horizon, ids, emitted, sinkUp, quotes, accepting, payment, served>>

\* the ids crypto.randomBytes gives the second instance's create(): never one
\* the first instance got
PeerIdSeq == <<EscrowIdSeq[2]>>

PeerIds == {PeerIdSeq[i] : i \in 1..Len(PeerIdSeq)}

\* create({payer, payee, amount, purpose}) on the second instance
PeerCreate ==
  /\ peer.open
  /\ Cardinality(DOMAIN peer.escrows \cap PeerIds) < Len(PeerIdSeq)
  /\ \E amount \in Amounts :
       LET e == NewEscrow(PeerIdSeq[Cardinality(DOMAIN peer.escrows \cap PeerIds) + 1],
                          amount,
                          Conditions("undef", FALSE, FALSE, FALSE, FALSE), 0, now)
       IN  /\ peer' = [peer EXCEPT !.escrows =
                         [id \in DOMAIN peer.escrows \cup {e.id} |->
                            IF id = e.id THEN e ELSE peer.escrows[id]]]
           /\ store' = saveState(peer'.escrows)
           /\ lastOp' = [op |-> "peer.create", id |-> e.id, arg |-> "",
                         error |-> "none", result |-> <<>>, path |-> NoPath,
                         repeat |-> FALSE]
           /\ UNCHANGED <<escrows, now, webhooks, horizon, ids, emitted, sinkUp, quotes, accepting, payment, served>>

PeerApprove ==
  /\ peer.open
  /\ \E id \in Known \cup PeerIds, approverId \in Principals :
       PeerCalled("peer.approve", id, approverId,
                  IF id \notin DOMAIN peer.escrows THEN NotFound
                  ELSE approve(peer.escrows[id], approverId, now))

PeerProcessTimeouts ==
  /\ peer.open
  /\ LET r == processTimeouts(FALSE, peer.escrows, now)
     IN  /\ peer' = [peer EXCEPT !.escrows = r.escrows]
         /\ store' = IF r.expired # <<>> THEN saveState(r.escrows) ELSE store
         /\ lastOp' = [op |-> "peer.processTimeouts", id |-> "", arg |-> "",
                       error |-> r.error, result |-> r.expired, path |-> r.path,
                       repeat |-> FALSE]
         /\ UNCHANGED <<escrows, now, webhooks, horizon, ids, emitted, sinkUp, quotes, accepting, payment, served>>

InitStore == Fresh(<<EscrowIdSeq[1]>>, MaxTicks)

NextStore ==
  \/ Tick
  \/ CreateTimed
  \/ Fund
  \/ Approve
  \/ Release
  \/ ProcessTimeouts
  \/ PeerOpen
  \/ PeerCreate
  \/ PeerApprove
  \/ PeerProcessTimeouts

SpecStore == InitStore /\ [][NextStore]_vars

\* approverId is recorded by an instance only when its approve call returned
ApprovedSomewhere(id, approverId) ==
  \/ id \in DOMAIN escrows /\ Contains(escrows[id].approvals, approverId)
  \/ id \in DOMAIN peer.escrows /\ Contains(peer.escrows[id].approvals, approverId)

\* C11: once approve(payer) and approve(payee) have both returned normally,
\* on one instance or on two instances sharing the store, the stored escrow
\* is locked (or beyond) and its approvals hold both parties.
C11_BothApprovalsReachStore ==
  \A id \in DOMAIN store :
    (\A p \in Parties(store[id]) : ApprovedSomewhere(id, p)) =>
      /\ store[id].state \notin {"pending", "funded"}
      /\ BothApproved(store[id])

SweepStep == lastOp'.op \in {"processTimeouts", "peer.processTimeouts"}

\* C12: a sweep refunds only escrows that are funded or locked in the store
\* at that moment, and an escrow released in the store is never refunded in
\* it afterwards, whichever instance acts.
C12_SweepSeesStore ==
  [][\A id \in DOMAIN store :
       /\ (SweepStep /\ Contains(lastOp'.result, id)) =>
            store[id].state \in {"funded", "locked"}
       /\ (store[id].state = "released" /\ id \in DOMAIN store') =>
            store'[id].state # "refunded"]_vars

\* C20: every id create() has returned, on either instance, is in the store.
C20_CreatedStaysStored ==
  \A id \in DOMAIN escrows \cup DOMAIN peer.escrows : id \in DOMAIN store

\* ------------------------------------------------------------------------
\* The timeline
\* ------------------------------------------------------------------------
\* the timeline keys written on entering a state
StateStamps == {"funded", "locked", "released", "refunded", "disputed"}

\* this call assigned state f to escrow id
Entered(id, f) == Contains(lastOp'.path[id], f)

\* C21: timeline.created is set at creation and kept; every other timeline
\* field is null until a call first takes the escrow into that state, is set
\* to the instant of that call, and is never changed or cleared afterwards.
C21_TimelineAppendOnly ==
  [][/\ \A id \in DOMAIN escrows' \ DOMAIN escrows :
          /\ escrows'[id].timeline.created = Some(now)
          /\ \A f \in StateStamps : escrows'[id].timeline[f] = NULL
     /\ \A id \in DOMAIN escrows :
          LET tl  == escrows[id].timeline
              tl2 == escrows'[id].timeline
          IN  /\ tl.created # NULL /\ tl2.created = tl.created
              /\ \A f \in StateStamps :
                   IF Entered(id, f)
                     THEN tl[f] = NULL /\ tl2[f] = Some(now)
                     ELSE tl2[f] = tl[f]]_vars

\* an escrow disputed and then refunded at a later instant than it was
\* funded and locked, all four stamps on record
C21_Witness ==
  \E id \in DOMAIN escrows :
    /\ escrows[id].state = "refunded"
    /\ escrows[id].timeline.funded = Some(Epoch)
    /\ escrows[id].timeline.locked = Some(Epoch)
    /\ escrows[id].timeline.disputed # NULL
    /\ escrows[id].timeline.refunded = Some(Epoch + TickMs)
    /\ escrows[id].timeline.released = NULL

\* ------------------------------------------------------------------------
\* Calls that name an id no escrow has: one escrow exists, the second id of
\* the run is never created
\* ------------------------------------------------------------------------
\* get(escrowId): this.escrows[escrowId] || null
get(es, id) == IF id \in DOMAIN es THEN Some(es[id]) ELSE NULL

Get ==
  \E id \in Known :
    /\ lastOp' = [op |-> "get", id |-> id, arg |-> "", error |-> "none",
                  result |-> get(escrows, id), path |-> NoPath, repeat |-> FALSE]
    /\ UNCHANGED <<escrows, now, webhooks, horizon, ids, emitted, store, peer, sinkUp, quotes, accepting, payment, served>>

CreateFirst == escrows = << >> /\ CreateTimed

InitLookup == Fresh(EscrowIdSeq, MaxTicks)

NextLookup ==
  \/ Tick
  \/ CreateFirst
  \/ Fund
  \/ Approve
  \/ SubmitDelivery
  \/ Release
  \/ Refund
  \/ Dispute
  \/ ResolveDispute
  \/ Get

SpecLookup == InitLookup /\ [][NextLookup]_vars

\* this call names an id no escrow has
UnknownIdCall(ops) ==
  /\ lastOp'.op \in ops
  /\ lastOp'.id \in Known \ DOMAIN escrows

\* C22: fund, approve, submitDelivery, release, refund, dispute,
\* resolveDispute and get, called with an id no escrow has, fail with
\* 'Escrow not found' and change no escrow, in memory or in the store.
C22_UnknownIdFails ==
  [][UnknownIdCall(Guarded \cup {"get"}) =>
       /\ lastOp'.error = "Escrow not found"
       /\ escrows' = escrows
       /\ store' = store]_vars

\* C22, amended: the seven mutating methods fail with 'Escrow not found' and
\* change nothing; get does not fail: it returns null, and changes nothing.
C22_UnknownIdFailsOrNull ==
  [][/\ UnknownIdCall(Guarded) =>
          /\ lastOp'.error = "Escrow not found"
          /\ escrows' = escrows
          /\ store' = store
     /\ UnknownIdCall({"get"}) =>
          /\ lastOp'.error = "none"
          /\ lastOp'.result = NULL
          /\ escrows' = escrows
          /\ store' = store]_vars

\* resolveDispute thrown back for an unknown id while another escrow is
\* disputed
C22_Witness ==
  /\ lastOp.op = "resolveDispute"
  /\ lastOp.error = "Escrow not found"
  /\ lastOp.id \notin DOMAIN escrows
  /\ \E id \in DOMAIN escrows : escrows[id].state = "disputed"

\* ------------------------------------------------------------------------
\* create() with any amount
\* ------------------------------------------------------------------------
\* params.amount, as a caller may pass it: negative, zero, positive
AnyAmounts == {-5, 0, 100}

CreateAnyAmount ==
  /\ Cardinality(DOMAIN escrows) < Len(ids)
  /\ \E amount \in AnyAmounts, ra \in {"undef", "false"} :
       Created("create",
               NewEscrow(FreshId, amount,
                         Conditions(ra, FALSE, FALSE, FALSE, FALSE), 0, now))

InitCreate == Fresh(EscrowIdSeq, MaxTicks)

NextCreate ==
  \/ Tick
  \/ CreateAnyAmount
  \/ Fund
  \/ Release
  \/ Refund

SpecCreate == InitCreate /\ [][NextCreate]_vars

\* C23: create adds a record only for a positive amount: a call with
\* amount <= 0 fails and adds none, so no record has such an amount; a call
\* with a positive amount adds one pending record with a fresh id, no
\* approvals and no proof, and changes no other record.
C23_CreateNeedsPositiveAmount ==
  [][/\ \A id \in DOMAIN escrows' \ DOMAIN escrows :
          /\ escrows'[id].amount > 0
          /\ escrows'[id].state = "pending"
          /\ escrows'[id].approvals = <<>>
          /\ escrows'[id].deliveryProof = NULL
     /\ lastOp'.op = "create" =>
          /\ Cardinality(DOMAIN escrows' \ DOMAIN escrows) <= 1
          /\ \A id \in DOMAIN escrows : escrows'[id] = escrows[id]]_vars

\* ------------------------------------------------------------------------
\* The dispute entry
\* ------------------------------------------------------------------------
\* C24: dispute(id, disputerId, reason) on a locked escrow succeeds, leaves
\* it disputed and stores exactly that disputerId and that reason, with the
\* base engine and with EscrowWithWebhooks alike.
C24_DisputeRecordsDisputer ==
  [][\A id \in DOMAIN escrows :
       (lastOp'.op = "dispute" /\ lastOp'.id = id /\ escrows[id].state = "locked") =>
         /\ lastOp'.error = "none"
         /\ escrows'[id].state = "disputed"
         /\ \E reason \in DisputeReasons :
              escrows'[id].disputeReason =
                Some([disputerId |-> lastOp'.arg, reason |-> reason,
                      timestamp |-> now])]_vars

\* ------------------------------------------------------------------------
\* Events and transitions
\* ------------------------------------------------------------------------
\* C25: with EscrowWithWebhooks, a call emits for each escrow exactly one
\* event per state transition the call makes on it: none when it throws or
\* leaves the state as it was, and never two for one transition.
C25_OneEventPerTransition ==
  [][webhooks =>
       \A id \in DOMAIN escrows :
         Len(NewEvents(id)) = Len(lastOp'.path[id])]_vars

\* ------------------------------------------------------------------------
\* EscrowWithWebhooks with a sink that may be down
\* ------------------------------------------------------------------------
InitSink == FreshSink(<<EscrowIdSeq[1]>>, MaxTicks, BOOLEAN)

NextSink ==
  \/ Tick
  \/ CreateTimed
  \/ Fund
  \/ Approve
  \/ SubmitDelivery
  \/ Release
  \/ Refund
  \/ Dispute
  \/ ResolveDispute
  \/ ProcessTimeouts

SpecSink == InitSink /\ [][NextSink]_vars

\* the methods EscrowWithWebhooks wraps around a super call on one escrow
Wrapped ==
  {"fund", "approve", "submitDelivery", "release", "refund", "dispute",
   "resolveDispute"}

\* what the super call of each wrapper does to the record, no event involved
SuperCall(op, e, arg) ==
  CASE op = "fund" -> fund(e, arg, now)
    [] op = "approve" -> approve(e, arg, now)
    [] op = "submitDelivery" -> submitDelivery(FALSE, e, arg, now)
    [] op = "release" -> release(e, "manual release", now)
    [] op = "refund" -> refund(e, "manual refund", now)
    [] op = "dispute" ->
         dispute(e, CHOOSE reason \in DisputeReasons : TRUE, "undefined", now)
    [] op = "resolveDispute" ->
         resolveDispute(FALSE, e, arg, CHOOSE arbiter \in Arbiters : TRUE, now)

SinkDown == webhooks /\ ~sinkUp

\* C26: with the sink down, every call of the event-emitting engine throws,
\* returns and persists exactly what its super call decides: the record and
\* the store end as with a working sink, and no emit failure is thrown.
C26_SinkFailureHarmless ==
  [][SinkDown =>
       /\ (lastOp'.op \in Wrapped /\ lastOp'.id \in DOMAIN escrows) =>
            LET id == lastOp'.id
                r  == SuperCall(lastOp'.op, escrows[id], lastOp'.arg)
            IN  /\ lastOp'.error = r.error
                /\ escrows'[id] = r.escrow
                /\ store' = IF r.ok THEN escrows' ELSE store
       /\ lastOp'.op = "create" =>
            /\ lastOp'.error = "none"
            /\ lastOp'.id \in DOMAIN escrows'
            /\ store' = escrows'
       /\ lastOp'.op = "processTimeouts" =>
            /\ lastOp'.error = "none"
            /\ escrows' = processTimeouts(FALSE, escrows, now).escrows]_vars

\* a refund that went through, and reached the store, while the sink was down
C26_Witness ==
  /\ SinkDown
  /\ lastOp.op = "refund" /\ lastOp.error = "none"
  /\ lastOp.id \in DOMAIN store
  /\ store[lastOp.id].state = "refunded"
  /\ Contains(emitted[lastOp.id], "escrow_refunded")

\* ------------------------------------------------------------------------
\* A sweep during which one store write fails
\* ------------------------------------------------------------------------
WriteFailed == "EIO: write failed"

\* refund() whose saveState() throws (fs.writeFileSync fails): the record is
\* already changed in memory, nothing is written, the error leaves refund
refundWriteFails(e, reason, t) ==
  LET r == refund(e, reason, t)
  IN  IF r.ok THEN [r EXCEPT !.ok = FALSE, !.error = WriteFailed] ELSE r

\* the loop of processTimeouts when the write for escrow bad fails: no
\* try/catch around this.refund, the error ends the loop
RECURSIVE sweepWriteFails(_, _, _, _, _)
sweepWriteFails(wh, bad, i, acc, t) ==
  IF i > Len(EscrowIdSeq) \/ acc.error # "none" THEN acc
  ELSE LET id == EscrowIdSeq[i]
       IN  IF id \notin DOMAIN acc.escrows THEN sweepWriteFails(wh, bad, i + 1, acc, t)
           ELSE LET e == acc.escrows[id]
                IN  IF Due(e, t)
                      THEN LET r == IF id = bad
                                      THEN refundWriteFails(e, "automatic timeout", t)
                                      ELSE this_refund(wh, e, "automatic timeout", t)
                           IN  sweepWriteFails(wh, bad, i + 1,
                                 [ escrows |-> [acc.escrows EXCEPT ![id] = r.escrow],
                                   expired |-> IF r.ok THEN Append(acc.expired, id)
                                                       ELSE acc.expired,
                                   path |-> [acc.path EXCEPT ![id] = r.path],
                                   events |-> [acc.events EXCEPT ![id] = r.events],
                                   error |-> r.error ], t)
                      ELSE sweepWriteFails(wh, bad, i + 1, acc, t)

\* processTimeouts() while the store cannot be written for one due escrow:
\* the method throws, the file keeps what the refunds before it wrote
ProcessTimeoutsWriteFails ==
  \E bad \in DOMAIN escrows :
    /\ Due(escrows[bad], now)
    /\ LET r == sweepWriteFails(webhooks, bad, 1,
                  [escrows |-> escrows, expired |-> <<>>, path |-> NoPath,
                   events |-> NoPath, error |-> "none"], now)
       IN  /\ escrows' = r.escrows
           /\ store' = IF r.expired # <<>>
                         THEN saveState([r.escrows EXCEPT ![bad] = escrows[bad]])
                         ELSE store
           /\ emitted' = IF webhooks
                           THEN [id \in EscrowIds |-> emitted[id] \o r.events[id]]
                           ELSE emitted
           /\ lastOp' = [op |-> "processTimeouts", id |-> "", arg |-> bad,
                         error |-> r.error, result |-> <<>>, path |-> r.path,
                         repeat |-> FALSE]
           /\ UNCHANGED <<now, webhooks, horizon, ids, peer, sinkUp, quotes, accepting, payment, served>>

InitSweepFail == Fresh(EscrowIdSeq, MaxTicks)

NextSweepFail ==
  \/ Tick
  \/ CreateTimed
  \/ Fund
  \/ ProcessTimeouts
  \/ ProcessTimeoutsWriteFails

SpecSweepFail == InitSweepFail /\ [][NextSweepFail]_vars

\* C27: a sweep does not throw when the refund of one due escrow fails: it
\* still refunds and returns every other due escrow.
C27_SweepContinuesPastFailure ==
  [][lastOp'.op = "processTimeouts" =>
       /\ lastOp'.error = "none"
       /\ \A id \in DOMAIN escrows :
            (Due(escrows[id], now) /\ id # lastOp'.arg) =>
              /\ escrows'[id].state = "refunded"
              /\ Contains(lastOp'.result, id)]_vars

\* ------------------------------------------------------------------------
\* A sweep called with an instant
\* ------------------------------------------------------------------------
\* the instants a caller may hand to the sweep
Instants == {Epoch - TickMs, Epoch, Epoch + TickMs, Epoch + 2 * TickMs}

\* processTimeouts(at): the method declares no parameter, so the argument is
\* dropped and the loop compares with const now = Date.now()
ProcessTimeoutsAt ==
  \E at \in Instants :
    LET r == IF webhooks THEN W_processTimeouts(escrows, now)
             ELSE processTimeouts(FALSE, escrows, now)
    IN  /\ escrows' = r.escrows
        /\ emitted' = IF webhooks
                        THEN [id \in EscrowIds |-> emitted[id] \o r.events[id]]
                        ELSE emitted
        /\ lastOp' = [op |-> "processTimeoutsAt", id |-> "", arg |-> at,
                      error |-> r.error, result |-> r.expired, path |-> r.path,
                      repeat |-> FALSE]
        /\ store' = IF r.expired # <<>> THEN saveState(r.escrows) ELSE store
        /\ UNCHANGED <<now, webhooks, horizon, ids, peer, sinkUp, quotes, accepting, payment, served>>

InitSweepAt == Fresh(EscrowIdSeq, MaxTicks)

NextSweepAt ==
  \/ Tick
  \/ CreateTimed
  \/ Fund
  \/ ProcessTimeoutsAt

SpecSweepAt == InitSweepAt /\ [][NextSweepAt]_vars

\* C28: the escrows a sweep refunds are determined by the records and the
\* instant the caller passes: the ids returned are those due at that instant,
\* whatever the clock reads.
C28_SweepUsesSuppliedInstant ==
  [][lastOp'.op = "processTimeoutsAt" =>
       /\ lastOp'.result = processTimeouts(FALSE, escrows, lastOp'.arg).expired
       /\ \A id \in DOMAIN escrows :
            escrows'[id].state = "refunded" <=>
              \/ escrows[id].state = "refunded"
              \/ Due(escrows[id], lastOp'.arg)]_vars

\* ---------------------------------------------------------------------------
\* Negotiation engine (PaymentNegotiationSystem).  payment-negotiation.js is
\* not among the sources; the operators below follow the specification's
\* data model for Quote and its section 4.2.  The escrow it creates on
\* acceptance goes through the escrow engine's create (NewEscrow above).
\* ---------------------------------------------------------------------------

MaxOffers == 2
QuoteIds == {"quote_1"}
QuotePrices == {0, 500}
CounterPrices == {400, 450}
ValidForMinutes == 1
Client == Payer
Provider == Payee

NewQuote(id, price, escrowRequired, autoRelease, t) ==
  [ id |-> id,
    providerId |-> Provider,
    clientId |-> Client,
    price |-> price,
    terms |-> [escrowRequired |-> escrowRequired, autoRelease |-> autoRelease],
    state |-> "pending",
    offers |-> <<>>,
    agreedPrice |-> NULL,
    escrowId |-> NULL,
    deliveryProof |-> NULL,
    deliveredAt |-> NULL,
    validUntil |-> t + ValidForMinutes * MsPerMinute ]

QOk(q) == [ok |-> TRUE, error |-> "none", quote |-> q]
QThrow(q, msg) == [ok |-> FALSE, error |-> msg, quote |-> q]

\* Both acceptances end here: the quote is accepted at the given price.
acceptAt(q, price) ==
  [q EXCEPT !.state = "accepted", !.agreedPrice = Some(price)]

accept_AnyCaller(q, clientId) ==
  IF q.state # "pending" THEN QThrow(q, "InvalidState")
  ELSE QOk(acceptAt(q, q.price))

accept(q, clientId) ==
  IF clientId # q.clientId THEN QThrow(q, "Unauthorized")
  ELSE IF q.state # "pending" THEN QThrow(q, "InvalidState")
  ELSE QOk(acceptAt(q, q.price))

reject(q, clientId) ==
  IF clientId # q.clientId THEN QThrow(q, "Unauthorized")
  ELSE IF q.state # "pending" THEN QThrow(q, "InvalidState")
  ELSE QOk([q EXCEPT !.state = "rejected"])

counterOffer_ReplacesOffers(q, clientId, newPrice) ==
  IF clientId # q.clientId THEN QThrow(q, "Unauthorized")
  ELSE IF q.state \notin {"pending", "countered"} THEN QThrow(q, "InvalidState")
  ELSE QOk([q EXCEPT !.state = "countered",
                     !.offers = <<[by |-> clientId, price |-> newPrice]>>])

counterOffer(q, clientId, newPrice) ==
  IF clientId # q.clientId THEN QThrow(q, "Unauthorized")
  ELSE IF q.state \notin {"pending", "countered"} THEN QThrow(q, "InvalidState")
  ELSE QOk([q EXCEPT !.state = "countered",
                     !.offers = Append(@, [by |-> clientId, price |-> newPrice])])

\* offerIndex 0 stands for an omitted index; offers are numbered from 1.
acceptCounter_FirstOffer(q, providerId, offerIndex) ==
  IF providerId # q.providerId THEN QThrow(q, "Unauthorized")
  ELSE IF q.state # "countered" THEN QThrow(q, "InvalidState")
  ELSE LET i == IF offerIndex = 0 THEN 1 ELSE offerIndex
       IN  IF i \notin 1..Len(q.offers) THEN QThrow(q, "IndexOutOfRange")
           ELSE QOk(acceptAt(q, q.offers[i].price))

acceptCounter(q, providerId, offerIndex) ==
  IF providerId # q.providerId THEN QThrow(q, "Unauthorized")
  ELSE IF q.state # "countered" THEN QThrow(q, "InvalidState")
  ELSE LET i == IF offerIndex = 0 THEN Len(q.offers) ELSE offerIndex
       IN  IF i \notin 1..Len(q.offers) THEN QThrow(q, "IndexOutOfRange")
           ELSE QOk(acceptAt(q, q.offers[i].price))

markDelivered(q, providerId, proof, t) ==
  IF providerId # q.providerId THEN QThrow(q, "Unauthorized")
  ELSE IF q.state # "accepted" THEN QThrow(q, "InvalidState")
  ELSE QOk([q EXCEPT !.deliveryProof = Some(proof), !.deliveredAt = Some(t)])

\* The escrow an accepted quote asks the escrow engine to create.
QuoteEscrow(q, id, t) ==
  [NewEscrow(id, q.agreedPrice[1], Conditions("undef", FALSE, FALSE, FALSE, FALSE), 0, t)
     EXCEPT !.payer = q.clientId, !.payee = q.providerId]

sweepExpirations_ExpiresAccepted(qs, t) ==
  [id \in DOMAIN qs |->
     IF t >= qs[id].validUntil THEN [qs[id] EXCEPT !.state = "expired"] ELSE qs[id]]

sweepExpirations_StrictlyAfter(qs, t) ==
  [id \in DOMAIN qs |->
     IF qs[id].state \in {"pending", "countered"} /\ t > qs[id].validUntil
       THEN [qs[id] EXCEPT !.state = "expired"]
       ELSE qs[id]]

sweepExpirations(qs, t) ==
  [id \in DOMAIN qs |->
     IF qs[id].state \in {"pending", "countered"} /\ t >= qs[id].validUntil
       THEN [qs[id] EXCEPT !.state = "expired"]
       ELSE qs[id]]

NegOp(op, qid, arg, error) ==
  [op |-> op, id |-> qid, arg |-> arg, error |-> error, result |-> <<>>,
   path |-> NoPath, repeat |-> FALSE]

QuoteCreated(autos) ==
  \E qid \in QuoteIds \ DOMAIN quotes, price \in QuotePrices, req \in BOOLEAN,
     auto \in autos :
    /\ quotes' = IF price > 0
                   THEN [id \in DOMAIN quotes \cup {qid} |->
                           IF id = qid THEN NewQuote(qid, price, req, auto, now)
                           ELSE quotes[id]]
                   ELSE quotes
    /\ lastOp' = NegOp("createQuote", qid, "",
                       IF price > 0 THEN "none" ELSE "InvalidPrice")
    /\ UNCHANGED <<escrows, now, webhooks, horizon, ids, emitted, store, peer, sinkUp, accepting, payment, served>>

\* terms.autoRelease defaults to false.
CreateQuote == QuoteCreated({FALSE})

CreateQuoteAnyTerms == QuoteCreated(BOOLEAN)

\* An operation that changes the quote and never touches the escrow engine.
QuoteCalled(op, qid, arg, r) ==
  /\ quotes' = IF r.ok THEN [quotes EXCEPT ![qid] = r.quote] ELSE quotes
  /\ lastOp' = NegOp(op, qid, arg, r.error)
  /\ UNCHANGED <<escrows, now, webhooks, horizon, ids, emitted, store, peer, sinkUp, accepting, payment, served>>

\* An acceptance: the quote changes and, when its terms require it, the
\* escrow engine creates the escrow and the quote records its id.
QuoteAccepted(op, qid, arg, r) ==
  IF r.ok /\ r.quote.terms.escrowRequired
    THEN LET e == QuoteEscrow(r.quote, FreshId, now)
         IN  /\ Cardinality(DOMAIN escrows) < Len(ids)
             /\ escrows' = [id \in DOMAIN escrows \cup {e.id} |->
                              IF id = e.id THEN e ELSE escrows[id]]
             /\ emitted' = IF webhooks
                             THEN [emitted EXCEPT ![e.id] = Append(@, "escrow_created")]
                             ELSE emitted
             /\ store' = saveState(escrows')
             /\ quotes' = [quotes EXCEPT ![qid] = [r.quote EXCEPT !.escrowId = Some(e.id)]]
             /\ lastOp' = NegOp(op, qid, arg, "none")
             /\ UNCHANGED <<now, webhooks, horizon, ids, peer, sinkUp, accepting, payment, served>>
    ELSE QuoteCalled(op, qid, arg, r)

Accept ==
  \E qid \in DOMAIN quotes, by \in Principals :
    QuoteAccepted("accept", qid, by, accept(quotes[qid], by))

Reject ==
  \E qid \in DOMAIN quotes, by \in Principals :
    QuoteCalled("reject", qid, by, reject(quotes[qid], by))

CounterOffer ==
  \E qid \in DOMAIN quotes, by \in Principals, p \in CounterPrices :
    /\ Len(quotes[qid].offers) < MaxOffers
    /\ QuoteCalled("counterOffer", qid, by, counterOffer(quotes[qid], by, p))

AcceptCounter ==
  \E qid \in DOMAIN quotes, by \in Principals, i \in 0..(MaxOffers + 1) :
    QuoteAccepted("acceptCounter", qid, <<by, i>>,
                  acceptCounter(quotes[qid], by, i))

\* The proof is recorded first; with terms.autoRelease the escrow engine is
\* then asked to release the bound escrow, and its failure is the call's.
MarkDelivered ==
  \E qid \in DOMAIN quotes, by \in Principals :
    LET r == markDelivered(quotes[qid], by, "proof", now)
    IN  IF r.ok /\ r.quote.terms.autoRelease /\ r.quote.escrowId # NULL
          THEN LET id == r.quote.escrowId[1]
                   rr == this_release(webhooks, escrows[id], "Service delivered", now)
               IN  /\ escrows' = [escrows EXCEPT ![id] = rr.escrow]
                   /\ emitted' = IF webhooks
                                   THEN [emitted EXCEPT ![id] = @ \o rr.events]
                                   ELSE emitted
                   /\ store' = IF rr.ok THEN saveState(escrows') ELSE store
                   /\ quotes' = [quotes EXCEPT ![qid] = r.quote]
                   /\ lastOp' = [NegOp("markDelivered", qid, by, rr.error)
                                   EXCEPT !.path = [NoPath EXCEPT ![id] = rr.path]]
                   /\ UNCHANGED <<now, webhooks, horizon, ids, peer, sinkUp, accepting, payment, served>>
          ELSE QuoteCalled("markDelivered", qid, by, r)

SweepExpirations ==
  /\ quotes' = sweepExpirations(quotes, now)
  /\ lastOp' = NegOp("sweepExpirations", "", "", "none")
  /\ UNCHANGED <<escrows, now, webhooks, horizon, ids, emitted, store, peer, sinkUp, accepting, payment, served>>

\* Escrows bound to some quote, and one escrow created directly beside them.
BoundEscrows == {quotes[q].escrowId[1] : q \in {x \in DOMAIN quotes : quotes[x].escrowId # NULL}}

CreateBeside ==
  /\ DOMAIN escrows \subseteq BoundEscrows
  /\ Cardinality(DOMAIN escrows) < Len(ids)
  /\ \E amount \in Amounts :
       Created("create",
               NewEscrow(FreshId, amount,
                         Conditions("undef", FALSE, FALSE, FALSE, FALSE), 0, now))

InitNegotiation == Fresh(EscrowIdSeq, MaxTicks)

NextNegotiation ==
  \/ CreateQuote
  \/ Accept
  \/ Reject
  \/ CounterOffer
  \/ AcceptCounter
  \/ SweepExpirations
  \/ CreateBeside
  \/ Fund
  \/ Tick

SpecNegotiation == InitNegotiation /\ [][NextNegotiation]_vars

\* C29: an acceptCounter with no index, by the provider, on a quote that has
\* had one or more counter-offers leaves the quote accepted at the price of
\* the most recent counter-offer; when the terms require an escrow, exactly
\* one new escrow exists, pending, for that amount, paid by the quote's client
\* to its provider, and the quote records its id; otherwise no escrow is made.
C29_NegotiationRoundTrip ==
  [][\A qid \in DOMAIN quotes :
       ( /\ lastOp'.op = "acceptCounter"
         /\ lastOp'.id = qid
         /\ lastOp'.arg = <<quotes[qid].providerId, 0>>
         /\ quotes[qid].state = "countered" )
       => LET q == quotes'[qid]
              made == DOMAIN escrows' \ DOMAIN escrows
          IN  /\ q.state = "accepted"
              /\ q.agreedPrice = Some(quotes[qid].offers[Len(quotes[qid].offers)].price)
              /\ IF q.terms.escrowRequired
                   THEN /\ Cardinality(made) = 1
                        /\ \A id \in made :
                             /\ escrows'[id].state = "pending"
                             /\ escrows'[id].amount = q.agreedPrice[1]
                             /\ escrows'[id].payer = q.clientId
                             /\ escrows'[id].payee = q.providerId
                             /\ q.escrowId = Some(id)
                   ELSE made = {} /\ q.escrowId = NULL
              /\ \A id \in DOMAIN escrows : escrows'[id] = escrows[id]]_vars

\* Two counter-offers at different prices, then accepted at the later one
\* with an escrow of that amount.
C29_Witness ==
  \E qid \in DOMAIN quotes :
    /\ lastOp.op = "acceptCounter" /\ lastOp.error = "none"
    /\ lastOp.arg[2] = 0
    /\ Len(quotes[qid].offers) = 2
    /\ quotes[qid].offers[1].price # quotes[qid].offers[2].price
    /\ quotes[qid].agreedPrice = Some(quotes[qid].offers[2].price)
    /\ quotes[qid].escrowId # NULL
    /\ escrows[quotes[qid].escrowId[1]].amount = quotes[qid].offers[2].price

\* C30: in every reachable state a quote's escrowId is set exactly when the
\* quote is accepted with terms.escrowRequired, a set escrowId names an escrow
\* held by the escrow engine, and no step changes an escrowId once set.
C30_EscrowIdBinding ==
  [][\A qid \in DOMAIN quotes' :
       LET q == quotes'[qid]
       IN  /\ (q.escrowId # NULL) <=> (q.state = "accepted" /\ q.terms.escrowRequired)
           /\ q.escrowId # NULL => q.escrowId[1] \in DOMAIN escrows'
           /\ (qid \in DOMAIN quotes /\ quotes[qid].escrowId # NULL)
                => q.escrowId = quotes[qid].escrowId]_vars

\* A quote past its validUntil, accepted and bound to an escrow that has since
\* been funded, with a sweep of expirations just run over it.
C30_Witness ==
  \E qid \in DOMAIN quotes :
    /\ lastOp.op = "sweepExpirations"
    /\ now >= quotes[qid].validUntil
    /\ quotes[qid].state = "accepted"
    /\ quotes[qid].escrowId # NULL
    /\ escrows[quotes[qid].escrowId[1]].state = "funded"

\* The edges of the quote state machine.
QuoteEdges ==
  { <<"pending", "accepted">>, <<"pending", "rejected">>, <<"pending", "countered">>,
    <<"countered", "countered">>, <<"countered", "accepted">>,
    <<"pending", "expired">>, <<"countered", "expired">> }

IsPrefix(a, b) == Len(a) <= Len(b) /\ \A i \in 1..Len(a) : b[i] = a[i]

\* C31: a quote's state changes only along the edges of the state machine, so
\* an accepted, rejected or expired quote never changes state again; its
\* agreedPrice is written once, by the step that accepts it, and never
\* changes; its offers only grow by appending; a new quote starts pending
\* with no offers and no agreedPrice.
C31_QuoteStateMachine ==
  [][\A qid \in DOMAIN quotes' :
       LET q == quotes'[qid]
       IN  IF qid \in DOMAIN quotes
             THEN LET p == quotes[qid]
                  IN  /\ q.state # p.state => <<p.state, q.state>> \in QuoteEdges
                      /\ p.state \in {"accepted", "rejected", "expired"}
                           => q.state = p.state
                      /\ p.agreedPrice # NULL => q.agreedPrice = p.agreedPrice
                      /\ (p.agreedPrice = NULL /\ q.agreedPrice # NULL)
                           => (p.state # "accepted" /\ q.state = "accepted")
                      /\ (q.state = "accepted") <=> (q.agreedPrice # NULL)
                      /\ IsPrefix(p.offers, q.offers)
                      /\ Len(q.offers) <= Len(p.offers) + 1
             ELSE q.state = "pending" /\ q.agreedPrice = NULL /\ q.offers = <<>>]_vars

\* A second counter-offer has just been appended to a countered quote.
C31_Witness ==
  \E qid \in DOMAIN quotes :
    /\ lastOp.op = "counterOffer" /\ lastOp.id = qid /\ lastOp.error = "none"
    /\ quotes[qid].state = "countered"
    /\ Len(quotes[qid].offers) = 2
    /\ quotes[qid].offers[1].price # quotes[qid].offers[2].price

\* ---------------------------------------------------------------------------
\* Authorization of the negotiation operations, delivery included.
\* ---------------------------------------------------------------------------

InitParties == Fresh(<<EscrowIdSeq[1]>>, 0)

NextParties ==
  \/ CreateQuoteAnyTerms
  \/ Accept
  \/ Reject
  \/ CounterOffer
  \/ AcceptCounter
  \/ MarkDelivered
  \/ Fund
  \/ Approve

SpecParties == InitParties /\ [][NextParties]_vars

\* The party a negotiation operation is reserved to.
Entitled(op, q) ==
  IF op \in {"accept", "reject", "counterOffer"} THEN q.clientId ELSE q.providerId

Caller(op, arg) == IF op = "acceptCounter" THEN arg[1] ELSE arg

Handlers == {"h1", "h2"}

\* The acceptance a handler carries, evaluated on the quote as it is now.
acceptance(call, q) ==
  IF call.op = "accept" THEN accept(q, call.by)
  ELSE acceptCounter(q, call.by, call.index)

commit_NoRecheck(call, q) ==
  IF call.op = "accept" THEN QOk(acceptAt(q, q.price))
  ELSE QOk(acceptAt(q, q.offers[Len(q.offers)].price))

\* The second step, under the quote's lock: the operation is decided on the
\* quote's current state.
commit(call, q) == acceptance(call, q)

\* First step: the handler reads the quote, and when the acceptance would go
\* through and needs an escrow, has the escrow engine create it.
BeginAcceptance ==
  \E h \in Handlers \ DOMAIN accepting, qid \in DOMAIN quotes,
     op \in {"accept", "acceptCounter"} :
    LET call == [op |-> op, quote |-> qid,
                 by |-> IF op = "accept" THEN quotes[qid].clientId
                        ELSE quotes[qid].providerId,
                 index |-> 0, escrowId |-> NULL, status |-> "started"]
        r == acceptance(call, quotes[qid])
        Going(c) == [x \in DOMAIN accepting \cup {h} |->
                       IF x = h THEN c ELSE accepting[x]]
    IN  IF r.ok /\ r.quote.terms.escrowRequired
          THEN LET e == QuoteEscrow(r.quote, FreshId, now)
               IN  /\ Cardinality(DOMAIN escrows) < Len(ids)
                   /\ escrows' = [id \in DOMAIN escrows \cup {e.id} |->
                                    IF id = e.id THEN e ELSE escrows[id]]
                   /\ emitted' = IF webhooks
                                   THEN [emitted EXCEPT ![e.id] = Append(@, "escrow_created")]
                                   ELSE emitted
                   /\ store' = saveState(escrows')
                   /\ accepting' = Going([call EXCEPT !.escrowId = Some(e.id)])
                   /\ lastOp' = NegOp("beginAcceptance", qid, h, "none")
                   /\ UNCHANGED <<now, webhooks, horizon, ids, peer, sinkUp, quotes, payment, served>>
          ELSE /\ accepting' = Going([call EXCEPT !.status =
                                        IF r.ok THEN "started" ELSE "failed"])
               /\ lastOp' = NegOp("beginAcceptance", qid, h, r.error)
               /\ UNCHANGED <<escrows, now, webhooks, horizon, ids, emitted, store,
                              peer, sinkUp, quotes, payment, served>>

\* Second step: under the quote's lock the acceptance succeeds and records
\* the escrow id, or fails; a failed call that had created an escrow reports
\* it as orphaned and leaves it as it is.
CommitAcceptance ==
  \E h \in DOMAIN accepting :
    /\ accepting[h].status = "started"
    /\ LET call == accepting[h]
           qid == call.quote
           r == commit(call, quotes[qid])
       IN  /\ quotes' = IF r.ok
                          THEN [quotes EXCEPT ![qid] =
                                  [r.quote EXCEPT !.escrowId = call.escrowId]]
                          ELSE quotes
           /\ accepting' = [accepting EXCEPT ![h].status =
                              IF r.ok THEN "succeeded"
                              ELSE IF call.escrowId # NULL THEN "orphan reported"
                              ELSE "failed"]
           /\ lastOp' = NegOp("commitAcceptance", qid, h,
                              IF r.ok THEN "none"
                              ELSE IF call.escrowId # NULL THEN "OrphanedEscrow"
                              ELSE r.error)
    /\ UNCHANGED <<escrows, now, webhooks, horizon, ids, emitted, store, peer, sinkUp, payment, served>>

InitAccepting == Fresh(EscrowIdSeq, 0)

NextAccepting ==
  \/ CreateQuote
  \/ CounterOffer
  \/ BeginAcceptance
  \/ CommitAcceptance
  \/ Fund

SpecAccepting == InitAccepting /\ [][NextAccepting]_vars

Succeeded(qid) ==
  {h \in DOMAIN accepting :
     accepting[h].quote = qid /\ accepting[h].status = "succeeded"}

\* Escrows created for a quote by the acceptances carried so far.
CreatedFor(qid) ==
  {accepting[h].escrowId[1] :
     h \in {x \in DOMAIN accepting :
              accepting[x].quote = qid /\ accepting[x].escrowId # NULL}}

\* C33: of the acceptances (accept and/or acceptCounter) run concurrently on
\* one quote at most one succeeds; the quote then references exactly the
\* escrow of the call that succeeded; an escrow created by a call that lost
\* is referenced by no quote, is reported by that call, and stays in the
\* escrow engine as it was created (the call is neither retried nor repaired).
C33_OneEscrowPerNegotiation ==
  \A qid \in DOMAIN quotes :
    /\ Cardinality(Succeeded(qid)) <= 1
    /\ quotes[qid].state = "accepted" => Cardinality(Succeeded(qid)) = 1
    /\ \A h \in Succeeded(qid) : quotes[qid].escrowId = accepting[h].escrowId
    /\ \A h \in DOMAIN accepting :
         (accepting[h].quote = qid /\ accepting[h].escrowId # NULL
            /\ accepting[h].status # "succeeded")
         => /\ accepting[h].status \in {"started", "orphan reported"}
            /\ accepting[h].escrowId[1] \in DOMAIN escrows
            /\ \A q \in DOMAIN quotes : quotes[q].escrowId # accepting[h].escrowId

\* Two acceptances raced on one quote: both had created an escrow, one
\* succeeded and the other reported its escrow as orphaned.
C33_Witness ==
  \E qid \in DOMAIN quotes, w \in Handlers, l \in Handlers :
    /\ w \in Succeeded(qid)
    /\ l \in DOMAIN accepting /\ accepting[l].quote = qid
    /\ accepting[l].status = "orphan reported"
    /\ lastOp.op = "commitAcceptance" /\ lastOp.error = "OrphanedEscrow"
    /\ Cardinality(DOMAIN escrows) = 2
    /\ quotes[qid].escrowId = accepting[w].escrowId

\* A quote the sweep at instant t must expire.
QuoteDue(q, t) == q.state \in {"pending", "countered"} /\ q.validUntil <= t

\* C34: a sweep of expirations at instant now expires every pending or
\* countered quote whose validUntil is at or before now and leaves every
\* other quote unchanged; a second sweep at the same instant changes
\* nothing; and no step accepts an expired quote or binds it to an escrow.
C34_SweepExpirations ==
  [][/\ lastOp'.op = "sweepExpirations"
        => /\ DOMAIN quotes' = DOMAIN quotes
           /\ \A qid \in DOMAIN quotes :
                IF QuoteDue(quotes[qid], now)
                  THEN quotes'[qid] = [quotes[qid] EXCEPT !.state = "expired"]
                  ELSE quotes'[qid] = quotes[qid]
           /\ sweepExpirations(quotes', now) = quotes'
           /\ escrows' = escrows
     /\ \A qid \in DOMAIN quotes :
          quotes[qid].state = "expired"
            => /\ quotes'[qid] = quotes[qid]
               /\ quotes[qid].escrowId = NULL
               /\ quotes[qid].agreedPrice = NULL]_vars

\* A countered quote has just been expired by a sweep run at the very
\* instant of its validUntil.
C34_Witness ==
  \E qid \in DOMAIN quotes :
    /\ lastOp.op = "sweepExpirations"
    /\ quotes[qid].state = "expired"
    /\ quotes[qid].validUntil = now
    /\ Len(quotes[qid].offers) > 0

\* ---------------------------------------------------------------------------
\* X402 server: a paid request is verified, served, and its escrow released.
\* ---------------------------------------------------------------------------

Requests == {"r1", "r2"}
Prices == {100, 150}

Valid(e) == [valid |-> TRUE, error |-> "none", escrow |-> e]
Invalid(msg) == [valid |-> FALSE, error |-> msg, escrow |-> NULL]

\* EscrowSystem.verifyX402Payment(escrowId, expectedAmount)
verifyX402Payment(es, escrowId, expectedAmount) ==
  LET found == get(es, escrowId)
  IN  IF found = NULL THEN Invalid("Escrow not found")
      ELSE LET escrow == found[1]
           IN  IF escrow.state \notin {"funded", "locked"}
                 THEN Invalid("Escrow not funded")
               ELSE IF escrow.amount < expectedAmount
                 THEN Invalid("Insufficient payment")
               ELSE IF escrow.purpose # "X402: service"
                 THEN Invalid("Not an X402 escrow")
               ELSE Valid(found)

\* X402Handler.verifyPaymentProof(headers, expectedAmount): the same checks
\* without the one of the purpose
verifyPaymentProof(es, escrowId, expectedAmount) ==
  LET found == get(es, escrowId)
  IN  IF found = NULL THEN Invalid("Escrow not found")
      ELSE LET escrow == found[1]
           IN  IF escrow.state # "funded" /\ escrow.state # "locked"
                 THEN Invalid("Escrow not funded")
               ELSE IF escrow.amount < expectedAmount
                 THEN Invalid("Insufficient payment")
               ELSE Valid(found)

ServerOp(op, id, req, error) ==
  [op |-> op, id |-> id, arg |-> req, error |-> error, result |-> <<>>,
   path |-> NoPath, repeat |-> FALSE]

\* requirePayment middleware: the request carries an escrow id and is
\* verified against the price of the service.
ServerVerify ==
  \E req \in Requests \ DOMAIN served, id \in Known, price \in Prices,
     via \in {"verifyPaymentProof", "verifyX402Payment"} :
    LET v == IF via = "verifyPaymentProof"
               THEN verifyPaymentProof(escrows, id, price)
               ELSE verifyX402Payment(escrows, id, price)
    IN  /\ served' = [r \in DOMAIN served \cup {req} |->
                        IF r = req
                          THEN [escrowId |-> id, via |-> via,
                                pc |-> IF v.valid THEN "verified" ELSE "rejected"]
                          ELSE served[r]]
        /\ lastOp' = ServerOp(via, id, req, v.error)
        /\ UNCHANGED <<escrows, now, webhooks, horizon, ids, emitted, store, peer,
                       sinkUp, quotes, accepting, payment>>

\* The paid handler produces and sends the content.
ServerDeliver ==
  \E req \in DOMAIN served :
    /\ served[req].pc = "verified"
    /\ served' = [served EXCEPT ![req].pc = "delivered"]
    /\ lastOp' = ServerOp("deliver", served[req].escrowId, req, "none")
    /\ UNCHANGED <<escrows, now, webhooks, horizon, ids, emitted, store, peer,
                   sinkUp, quotes, accepting, payment>>

\* The paid handler releases the escrow it verified: escrow.release after
\* verifyPaymentProof, escrowSystem.releaseX402 after verifyX402Payment.
ServerRelease ==
  \E req \in DOMAIN served :
    /\ served[req].pc = "delivered"
    /\ LET id == served[req].escrowId
           r == IF id \notin DOMAIN escrows THEN NotFound
                ELSE IF served[req].via = "verifyPaymentProof"
                  THEN this_release(webhooks, escrows[id], "delivered", now)
                  ELSE releaseX402(webhooks, escrows[id], "delivered", now)
       IN  /\ escrows' = IF id \in DOMAIN escrows
                           THEN [escrows EXCEPT ![id] = r.escrow] ELSE escrows
           /\ emitted' = IF webhooks
                           THEN [emitted EXCEPT ![id] = @ \o r.events] ELSE emitted
           /\ store' = IF r.ok THEN saveState(escrows') ELSE store
           /\ served' = [served EXCEPT ![req].pc = IF r.ok THEN "paid" ELSE "unpaid"]
           /\ lastOp' = [ServerOp("serverRelease", id, req, r.error)
                           EXCEPT !.path = [NoPath EXCEPT ![id] = r.path]]
    /\ UNCHANGED <<now, webhooks, horizon, ids, peer, sinkUp, quotes, accepting,
                   payment>>

InitServer == Fresh(<<EscrowIdSeq[1]>>, 0)

NextServer ==
  \/ CreateX402Escrow
  \/ Fund
  \/ SubmitDelivery
  \/ Refund
  \/ ServerVerify
  \/ ServerDeliver
  \/ ServerRelease

SpecServer == InitServer /\ [][NextServer]_vars

\* C35, as claimed: for an escrow made by createX402Escrow and funded, the
\* release the server makes after it verified the payment and delivered the
\* content succeeds and leaves the escrow released.
C35_ServerReleaseSucceeds ==
  [][\A req \in DOMAIN served :
       ( /\ served[req].pc = "delivered"
         /\ lastOp'.op = "serverRelease" /\ lastOp'.arg = req
         /\ escrows[served[req].escrowId].purpose = "X402: service" )
       => /\ lastOp'.error = "none"
          /\ escrows'[served[req].escrowId].state = "released"]_vars

\* Requests that passed verification with the given escrow id.
PassedVerification(sv, id) == {req \in DOMAIN sv : sv[req].escrowId = id /\ sv[req].pc # "rejected"}

\* C38, as claimed: whatever the interleaving of the paid requests that carry
\* one escrow id, at most one of them passes verification (and so at most
\* one is served); and a request carrying a released or refunded escrow is
\* never verified as valid.
C38_OneDeliveryPerEscrow ==
  [][/\ \A id \in DOMAIN escrows : Cardinality(PassedVerification(served', id)) <= 1
     /\ \A id \in DOMAIN escrows :
          ( /\ lastOp'.op \in {"verifyPaymentProof", "verifyX402Payment"}
            /\ lastOp'.id = id
            /\ escrows[id].state \in {"released", "refunded"} )
          => lastOp'.error # "none"]_vars

\* ---------------------------------------------------------------------------
\* X402 client: X402Handler.handlePaymentRequired.  The handler creates and
\* funds the escrow, then waits for the paid retry of the request; what it
\* does next depends on the response.
\* ---------------------------------------------------------------------------

\* options.defaultTimeout of the handler, in seconds (300 when not given)
DefaultTimeouts == {60, 300}

NotDelivered == "Payment made but content not delivered"

PaymentOp(op, id, error, path) ==
  [op |-> op, id |-> id, arg |-> "", error |-> error, result |-> <<>>,
   path |-> [NoPath EXCEPT ![id] = path], repeat |-> FALSE]

\* createX402Escrow(paymentInfo, payerInfo) then this.escrow.fund(id, txHash)
HandlerPay ==
  /\ payment.pc = "idle"
  /\ Cardinality(DOMAIN escrows) < Len(ids)
  /\ \E amount \in Amounts, auto \in BOOLEAN, defaultTimeout \in DefaultTimeouts,
        txHash \in TxHashes :
       LET e == [NewEscrow(FreshId, amount,
                           Conditions("false", TRUE, FALSE, FALSE, auto),
                           defaultTimeout \div 60, now)
                   EXCEPT !.purpose = "X402: service"]
           r == IF webhooks THEN W_fund(e, txHash, now) ELSE fund(e, txHash, now)
       IN  /\ escrows' = [id \in DOMAIN escrows \cup {e.id} |->
                            IF id = e.id THEN r.escrow ELSE escrows[id]]
           /\ emitted' = IF webhooks
                           THEN [emitted EXCEPT ![e.id] =
                                   Append(@, "escrow_created") \o r.events]
                           ELSE emitted
           /\ store' = saveState(escrows')
           /\ payment' = [pc |-> "retrying", escrowId |-> Some(e.id),
                          autoRelease |-> auto, error |-> "none"]
           /\ lastOp' = PaymentOp("handlerPay", e.id, "none", r.path)
  /\ UNCHANGED <<now, webhooks, horizon, ids, peer, sinkUp, quotes, accepting, served>>

\* paidResponse.ok: submitDelivery, then get, then release when the escrow is
\* still locked and the handler's autoRelease is on.
HandlerDelivered ==
  /\ payment.pc = "retrying"
  /\ \E data \in ProofData :
       LET id == payment.escrowId[1]
           s == IF webhooks THEN W_submitDelivery(escrows[id], data, now)
                ELSE submitDelivery(FALSE, escrows[id], data, now)
           r == IF s.ok /\ s.escrow.state = "locked" /\ payment.autoRelease
                  THEN LET rel == this_release(webhooks, s.escrow,
                                    "X402 automatic release - content delivered", now)
                       IN  [rel EXCEPT !.path = s.path \o @, !.events = s.events \o @]
                  ELSE s
       IN  /\ escrows' = [escrows EXCEPT ![id] = r.escrow]
           /\ emitted' = IF webhooks
                           THEN [emitted EXCEPT ![id] = @ \o r.events] ELSE emitted
           /\ store' = IF s.ok THEN saveState(escrows') ELSE store
           /\ payment' = [payment EXCEPT !.pc = IF r.ok THEN "done" ELSE "failed",
                                         !.error = r.error]
           /\ lastOp' = PaymentOp("handlerDelivered", id, r.error, r.path)
  /\ UNCHANGED <<now, webhooks, horizon, ids, peer, sinkUp, quotes, accepting, served>>

\* The paid retry does not deliver: retryWithPayment throws, or the response
\* is not ok and the handler throws.
HandlerFails ==
  /\ payment.pc = "retrying"
  /\ payment' = [payment EXCEPT !.pc = "failed", !.error = NotDelivered]
  /\ lastOp' = PaymentOp("handlerFails", payment.escrowId[1], NotDelivered, <<>>)
  /\ UNCHANGED <<escrows, now, webhooks, horizon, ids, emitted, store, peer, sinkUp,
                 quotes, accepting, served>>

InitPayment == Fresh(<<EscrowIdSeq[1]>>, MaxSweepTicks)

NextPayment ==
  \/ HandlerPay
  \/ HandlerDelivered
  \/ HandlerFails
  \/ Release
  \/ ReleaseX402
  \/ Refund
  \/ Tick
  \/ ProcessTimeouts

SpecPayment ==
  InitPayment /\ [][NextPayment]_vars /\ WF_vars(ProcessTimeouts) /\ WF_vars(Tick)

\* C37, as claimed: when handlePaymentRequired succeeds, the escrow it
\* created has the delivery proof and is released if the handler's
\* autoRelease is on, locked if it is off.
C37_FinalStateFollowsAutoRelease ==
  [][(payment.pc = "retrying" /\ payment'.pc = "done")
       => LET e == escrows'[payment.escrowId[1]]
          IN  /\ e.deliveryProof # NULL
              /\ e.state = IF payment.autoRelease THEN "released" ELSE "locked"]_vars

\* The handler gave up after funding because the paid retry delivered nothing.
PaymentFailed == payment.pc = "failed" /\ payment.error = NotDelivered

PaidEscrow == escrows[payment.escrowId[1]]

\* The failed payment's escrow has a timeout that passes within the horizon.
FailedAwaitingTimeout ==
  IF PaymentFailed THEN PaidEscrow.timeout[1] < horizon ELSE FALSE

PaidRefunded ==
  IF payment.escrowId # NULL THEN PaidEscrow.state = "refunded" ELSE FALSE

C39_CustodyHistory ==
  \A id \in DOMAIN escrows :
    LET e == escrows[id]
    IN  /\ ~(e.timeline.released # NULL /\ e.timeline.refunded # NULL)
        /\ e.state \in {"released", "refunded", "disputed"} => e.timeline.funded # NULL
        /\ e.state \in {"released", "disputed"} => e.timeline.locked # NULL

\* An escrow refunded out of a dispute: funded, locked and disputed before,
\* never released.
C39_Witness ==
  \E id \in DOMAIN escrows :
    /\ escrows[id].state = "refunded"
    /\ escrows[id].timeline.disputed # NULL
    /\ escrows[id].timeline.locked # NULL
    /\ escrows[id].timeline.funded # NULL
    /\ escrows[id].timeline.released = NULL

====
